---- MODULE Spec2Model ----
(***************************************************************************)
(* IONEX TEC-grid parser of src/LR1/main.py (class IONEXParser):           *)
(* parse_ionex_file, _parse_header, _parse_data and _extract_tec_data.     *)
(*                                                                         *)
(* A file is a sequence of lines.  A line is a record                      *)
(*   [text |-> sequence of one-character strings, pad |-> number,          *)
(*    label |-> string]                                                    *)
(* text is the numeric part of the line, label its trailing keyword ("" if *)
(* none) and pad the number of blanks between the two.                     *)
(* Numbers are integers in tenths: 87.5 is 875, a TEC value 1 is 10.       *)
(* Line indices are 0-based as in the source; At(k) is lines[k].           *)
(***************************************************************************)
EXTENDS Integers, Sequences, FiniteSets, TLC

\* ------------------------------------------------------------------------
\* Text primitives: str.strip, str.split, float(), int()
\* ------------------------------------------------------------------------

Digits == {"0", "1", "2", "3", "4", "5", "6", "7", "8", "9"}

DigitVal(c) ==
    CASE c = "0" -> 0 [] c = "1" -> 1 [] c = "2" -> 2 [] c = "3" -> 3
      [] c = "4" -> 4 [] c = "5" -> 5 [] c = "6" -> 6 [] c = "7" -> 7
      [] c = "8" -> 8 [] c = "9" -> 9

RECURSIVE LStrip(_)
LStrip(s) ==
    IF s = <<>> THEN <<>>
    ELSE IF Head(s) = " " THEN LStrip(Tail(s)) ELSE s

RECURSIVE RStrip(_)
RStrip(s) ==
    IF s = <<>> THEN <<>>
    ELSE IF s[Len(s)] = " " THEN RStrip(SubSeq(s, 1, Len(s) - 1)) ELSE s

Strip(s) == RStrip(LStrip(s))

\* str.split(): the maximal runs of non-blank characters, in order
RECURSIVE SplitFrom(_, _, _)
SplitFrom(s, cur, acc) ==
    IF s = <<>> THEN (IF cur = <<>> THEN acc ELSE Append(acc, cur))
    ELSE IF Head(s) = " "
         THEN SplitFrom(Tail(s), <<>>, IF cur = <<>> THEN acc ELSE Append(acc, cur))
         ELSE SplitFrom(Tail(s), Append(cur, Head(s)), acc)

Split(s) == SplitFrom(s, <<>>, <<>>)

Fail == [ok |-> FALSE, val |-> 0]
Ok(v) == [ok |-> TRUE, val |-> v]

RECURSIVE DigitsValue(_, _)
DigitsValue(s, acc) ==
    IF s = <<>> THEN acc ELSE DigitsValue(Tail(s), 10 * acc + DigitVal(Head(s)))

AllDigits(s) == \A k \in 1..Len(s) : s[k] \in Digits

\* position of the first "." of s, 0 if none
RECURSIVE DotPos(_, _)
DotPos(s, k) ==
    IF k > Len(s) THEN 0 ELSE IF s[k] = "." THEN k ELSE DotPos(s, k + 1)

\* unsigned decimal mantissa (digits with at most one point, at least one
\* digit), in tenths; fractional digits after the first are below the
\* resolution of the model
Mantissa(s) ==
    LET d == DotPos(s, 1)
        ip == IF d = 0 THEN s ELSE SubSeq(s, 1, d - 1)
        fp == IF d = 0 THEN <<>> ELSE SubSeq(s, d + 1, Len(s))
    IN  IF AllDigits(ip) /\ AllDigits(fp) /\ Len(ip) + Len(fp) >= 1
        THEN Ok(10 * DigitsValue(ip, 0) + (IF fp = <<>> THEN 0 ELSE DigitVal(fp[1])))
        ELSE Fail

\* float(s): surrounding blanks allowed, optional sign, decimal mantissa
ParseFloat(s) ==
    LET t == Strip(s)
        signed == t # <<>> /\ t[1] \in {"-", "+"}
        m == Mantissa(IF signed THEN Tail(t) ELSE t)
    IN  IF t = <<>> \/ ~m.ok THEN Fail
        ELSE IF signed /\ t[1] = "-" THEN Ok(-m.val) ELSE m

\* int(s): surrounding blanks allowed, optional sign, digits only
ParseInt(s) ==
    LET t == Strip(s)
        signed == t # <<>> /\ t[1] \in {"-", "+"}
        u == IF signed THEN Tail(t) ELSE t
    IN  IF u = <<>> \/ ~AllDigits(u) THEN Fail
        ELSE IF signed /\ t[1] = "-" THEN Ok(-DigitsValue(u, 0)) ELSE Ok(DigitsValue(u, 0))

\* int(float(x)) of a value in tenths: truncation towards zero
IntOfFloat(v) == IF v >= 0 THEN v \div 10 ELSE -((-v) \div 10)

\* ------------------------------------------------------------------------
\* Lines
\* ------------------------------------------------------------------------

\* the keywords the parser looks for, and the other labels of an IONEX file;
\* none of them is a substring of another label, and the text part of a line
\* holds no letters of a keyword, so `kw in line` is label equality
Contains(line, kw) == line.label = kw

LabelLen(l) ==
    CASE l = "" -> 0
      [] l = "EPOCH OF FIRST MAP" -> 18
      [] l = "EPOCH OF LAST MAP" -> 17
      [] l = "INTERVAL" -> 8
      [] l = "LAT1 / LAT2 / DLAT" -> 18
      [] l = "LON1 / LON2 / DLON" -> 18
      [] l = "HGT1 / HGT2 / DHGT" -> 18
      [] l = "# OF MAPS IN FILE" -> 17
      [] l = "END OF HEADER" -> 13
      [] l = "START OF TEC MAP" -> 16
      [] l = "EPOCH OF CURRENT MAP" -> 20
      [] l = "LAT/LON1/LON2/DLON/H" -> 20
      [] l = "END OF TEC MAP" -> 14
      [] l = "START OF RMS MAP" -> 16
      [] l = "END OF RMS MAP" -> 14

\* `if line` for line = lines[i].strip()
NonBlank(line) == Strip(line.text) # <<>> \/ line.label # ""

\* lines[i].strip() without its label: the text from its first non-blank
\* character, followed by the blanks that separate it from the label
Body(line) ==
    IF Strip(line.text) = <<>> THEN <<>>
    ELSE IF line.label = "" THEN Strip(line.text)
    ELSE LStrip(line.text) \o [k \in 1..line.pad |-> " "]

\* len(lines[i].strip())
StrippedLen(line) == Len(Body(line)) + LabelLen(line.label)

\* float(line[:8].strip()) for line = lines[i].strip(): the first eight
\* characters of the stripped line; when they reach into the label they hold
\* letters and the conversion raises
First8(line) ==
    LET b == Body(line)
    IN  IF Len(b) >= 8 THEN ParseFloat(SubSeq(b, 1, 8))
        ELSE IF line.label = "" THEN ParseFloat(b)
        ELSE Fail

\* line.split(): the tokens of the text; the words of the label follow them
\* and are not numbers
Tokens(line) == Split(line.text)

\* float(parts[k]) (k 0-based); raises when it fails
Part(line, k) ==
    LET parts == Tokens(line)
    IN  IF k + 1 <= Len(parts) THEN ParseFloat(parts[k + 1]) ELSE Fail

\* [float(x) for x in data_line.split()]: fails as a whole when one token is
\* not a number
LineFloats(line) ==
    LET parts == Tokens(line)
    IN  IF line.label # "" \/ \E k \in 1..Len(parts) : ~ParseFloat(parts[k]).ok
        THEN [ok |-> FALSE, vals |-> <<>>]
        ELSE [ok |-> TRUE, vals |-> [k \in 1..Len(parts) |-> ParseFloat(parts[k]).val]]

\* ------------------------------------------------------------------------
\* datetime(y, m, d, h, mi, s) and np.arange
\* ------------------------------------------------------------------------

DaysInMonth(y, m) ==
    IF m \in {4, 6, 9, 11} THEN 30
    ELSE IF m = 2
         THEN (IF (y % 4 = 0 /\ y % 100 # 0) \/ y % 400 = 0 THEN 29 ELSE 28)
         ELSE 31

ValidDate(e) ==
    /\ e[1] \in 1..9999 /\ e[2] \in 1..12
    /\ e[3] >= 1 /\ e[3] <= DaysInMonth(e[1], e[2])
    /\ e[4] \in 0..23 /\ e[5] \in 0..59 /\ e[6] \in 0..59

\* datetime(int(float(parts[0])), ..., int(float(parts[5]))); raises when a
\* part is missing or not a number or the date is invalid
ParseEpoch(line) ==
    IF \E k \in 0..5 : ~Part(line, k).ok THEN [ok |-> FALSE, val |-> <<>>]
    ELSE LET e == [k \in 1..6 |-> IntOfFloat(Part(line, k - 1).val)]
         IN  IF ValidDate(e) THEN [ok |-> TRUE, val |-> e]
             ELSE [ok |-> FALSE, val |-> <<>>]

\* ceil(a / b) for b # 0
CeilDiv(a, b) == IF b > 0 THEN -((-a) \div b) ELSE -(a \div (-b))

\* len(np.arange(start, end + step / 2, step)), step # 0
ARangeLen(start, end, step) ==
    LET n == CeilDiv(2 * (end - start) + step, 2 * step)
    IN  IF n > 0 THEN n ELSE 0

\* np.arange(start, end + step / 2, step), step # 0
ARange(start, end, step) ==
    [k \in 1..ARangeLen(start, end, step) |-> start + (k - 1) * step]

\* np.sin and np.cos of an angle in tenths of a degree, in thousandths
\* (rational approximation 4x(180-x) / (40500 - x(180-x)), error < 0.002)
SinMilli(t) ==
    LET r == t % 3600
        q == IF r <= 1800 THEN r ELSE r - 1800
        b == (400 * (q * (1800 - q))) \div ((4050000 - q * (1800 - q)) \div 10)
    IN  IF r <= 1800 THEN b ELSE -b

CosMilli(t) == SinMilli(t + 900)

\* ------------------------------------------------------------------------
\* State
\* ------------------------------------------------------------------------

VARIABLES
    lines,        \* content.split("\n")
    pc,           \* "header", "check", "data", "extract", "done"
    header_info,  \* the dict of _parse_header: a function on the keys set
    h_i,          \* loop index of _parse_header
    i,            \* loop index of _parse_data
    j,            \* index of the epoch line of the map being extracted
    epoch,        \* epoch of the map being extracted
    data,         \* list of {"epoch", "tec"} of _parse_data
    x_i,          \* loop index of _extract_tec_data
    lat_idx,      \* next row of tec_matrix to fill
    tec_matrix,   \* rows of the matrix being filled
    row_src,      \* per row of tec_matrix: the latitude line that filled it
    result        \* what parse_ionex_file returns

parser_vars == <<lines, pc, header_info, h_i, i, j, epoch, data, x_i, lat_idx,
                 tec_matrix, row_src, result>>

\* IonosphericDelayCalculator: its fields, and the calls made on it
VARIABLES
    tec_data,       \* self.tec_data
    Re,             \* self.Re, in km
    height,         \* self.h, in km
    interpolators,  \* self.interpolators
    call,           \* the arguments the methods are called with
    rets            \* per method: what it returned, or Pending

calc_vars == <<tec_data, Re, height, interpolators, call, rets>>

\* LunarDEMHeightFinder: its fields, and the calls made on it
VARIABLES
    metadata,       \* self.metadata: a function on the keys set
    raster,         \* self.elevation: rows of pixel values
    query,          \* the (lat, lon) the methods are called with
    heights,        \* per method: what it returned, or Pending
    reads           \* the pixels (row, column) of self.elevation read so far

finder_vars == <<metadata, raster, query, heights, reads>>

\* the DEM converters: the files, and the position in the conversion
VARIABLES
    program,        \* which converter runs
    label,          \* the .lbl file: a function on the keywords it holds
    img,            \* the .img file: its bytes
    cpc,            \* "parse", "dtype", "read", "retry", "size", "write", "done"
    params,         \* the dict of the label parser
    dtype,          \* dtype handed to np.fromfile
    samples,        \* data: the decoded samples
    output,         \* the output file: None until written
    converted       \* what the converter returned, or Pending

converter_vars == <<program, label, img, cpc, params, dtype, samples, output, converted>>

\* CylindricalLunarDEMCorrected: its fields, and the calls made on it
VARIABLES
    LINES,          \* self.LINES
    LINE_SAMPLES,   \* self.LINE_SAMPLES
    elevation_data, \* self.elevation_data: rows of pixel values
    coords,         \* the (lat, lon) the methods are called with
    pixels,         \* per conversion method: what it returned, or Pending
    elevations      \* per conversion method: what get_elevation returned for
                    \* its pixel, or Pending

dem_vars == <<LINES, LINE_SAMPLES, elevation_data, coords, pixels, elevations>>

outside_parser == <<calc_vars, finder_vars, converter_vars, dem_vars>>

vars == <<parser_vars, calc_vars, finder_vars, converter_vars, dem_vars>>

At(k) == lines[k + 1]

Has(h, key) == key \in DOMAIN h

\* header_info[key] = v
SetKey(h, key, v) == [x \in DOMAIN h \cup {key} |-> IF x = key THEN v ELSE h[x]]

Pending == [kind |-> "pending"]
None == [kind |-> "None"]

\* no latitude line has filled the row
Unfilled == [line |-> -1, lat |-> 0]

\* ------------------------------------------------------------------------
\* _parse_header
\* ------------------------------------------------------------------------

\* the three assignments of a LAT1 / LAT2 / DLAT or LON1 / LON2 / DLON
\* branch and the np.arange that follows; an exception leaves the
\* assignments made before it
AxisBranch(h, line, kstart, kend, kstep, kaxis) ==
    LET p0 == Part(line, 0)
        p1 == Part(line, 1)
        p2 == Part(line, 2)
        h0 == SetKey(h, kstart, p0.val)
        h1 == SetKey(h0, kend, p1.val)
        h2 == SetKey(h1, kstep, p2.val)
    IN  IF ~p0.ok THEN h
        ELSE IF ~p1.ok THEN h0
        ELSE IF ~p2.ok THEN h1
        ELSE IF p2.val = 0 THEN h2
        ELSE SetKey(h2, kaxis, ARange(p0.val, p1.val, p2.val))

\* the body of the for loop for one line that is not END OF HEADER
HeaderBranch(h, line) ==
    IF Contains(line, "EPOCH OF FIRST MAP")
    THEN (IF ParseEpoch(line).ok THEN SetKey(h, "start_time", ParseEpoch(line).val) ELSE h)
    ELSE IF Contains(line, "EPOCH OF LAST MAP")
    THEN (IF ParseEpoch(line).ok THEN SetKey(h, "end_time", ParseEpoch(line).val) ELSE h)
    ELSE IF Contains(line, "INTERVAL")
    THEN (IF Part(line, 0).ok THEN SetKey(h, "interval", Part(line, 0).val) ELSE h)
    ELSE IF Contains(line, "LAT1 / LAT2 / DLAT")
    THEN AxisBranch(h, line, "lat_start", "lat_end", "lat_step", "latitudes")
    ELSE IF Contains(line, "LON1 / LON2 / DLON")
    THEN AxisBranch(h, line, "lon_start", "lon_end", "lon_step", "longitudes")
    ELSE IF Contains(line, "HGT1 / HGT2 / DHGT")
    THEN (IF Len(Tokens(line)) >= 3 /\ \A k \in 0..2 : Part(line, k).ok
          THEN SetKey(h, "height", Part(line, 0).val) ELSE h)
    ELSE IF Contains(line, "# OF MAPS IN FILE")
    THEN (IF Len(Tokens(line)) >= 1 /\ ParseInt(Tokens(line)[1]).ok
          THEN SetKey(h, "num_maps", ParseInt(Tokens(line)[1]).val) ELSE h)
    ELSE h

\* variant: the loop does not stop at END OF HEADER
AtHeaderEnd_Never(line) == FALSE

\* the last branch of the loop: the line ends the header
AtHeaderEnd(line) == Contains(line, "END OF HEADER")

\* one iteration of the for loop of _parse_header
HeaderLine ==
    /\ pc = "header"
    /\ h_i < Len(lines)
    /\ LET line == At(h_i)
       IN  IF AtHeaderEnd(line)
           THEN /\ header_info' = SetKey(header_info, "header_end", h_i)
                /\ pc' = "check"
                /\ h_i' = h_i
           ELSE /\ header_info' = HeaderBranch(header_info, line)
                /\ h_i' = h_i + 1
                /\ pc' = IF h_i + 1 < Len(lines) THEN "header" ELSE "check"
    /\ UNCHANGED <<lines, i, j, epoch, data, x_i, lat_idx, tec_matrix, row_src, result>>
    /\ UNCHANGED outside_parser

\* variant: only a header without both axes is incomplete
HeaderIncomplete_BothMissing(h) == ~Has(h, "latitudes") /\ ~Has(h, "longitudes")

\* the grid parameters were not found
HeaderIncomplete(h) == ~Has(h, "latitudes") \/ ~Has(h, "longitudes")

\* header_info.get("header_end", 0) + 1
StartIdx(h) == (IF Has(h, "header_end") THEN h["header_end"] ELSE 0) + 1

\* the end of _parse_header, its caller's test of the result and the start
\* of _parse_data
HeaderReturn ==
    /\ pc = "check"
    /\ IF HeaderIncomplete(header_info)
       THEN /\ result' = None
            /\ pc' = "done"
            /\ UNCHANGED i
       ELSE /\ i' = StartIdx(header_info)
            /\ pc' = "data"
            /\ UNCHANGED result
    /\ UNCHANGED <<lines, header_info, h_i, j, epoch, data, x_i, lat_idx, tec_matrix, row_src>>
    /\ UNCHANGED outside_parser

\* ------------------------------------------------------------------------
\* _extract_tec_data
\* ------------------------------------------------------------------------

NLat == Len(header_info["latitudes"])
NLon == Len(header_info["longitudes"])

\* first_val in lats
InLats(v) == \E k \in 1..NLat : header_info["latitudes"][k] = v

\* np.zeros((len(lats), len(lons)))
Zeros == [r \in 1..NLat |-> [c \in 1..NLon |-> 0]]

\* most lines read for one latitude: range(1, 100)
MaxOffset == 99

\* values per line assumed by the index advance
ValuesPerLine == 16

\* the for loop over offset: the values collected from the lines after
\* line k, up to a blank line, a latitude line, END OF TEC MAP or the end of
\* the file; a line that does not convert adds nothing
RECURSIVE CollectRow(_, _, _)
CollectRow(k, offset, row_data) ==
    IF offset > MaxOffset \/ k + offset >= Len(lines) THEN row_data
    ELSE LET data_line == At(k + offset)
         IN  IF ~NonBlank(data_line) THEN row_data
             ELSE IF Contains(data_line, "LAT/LON1/LON2/DLON/H")
                     \/ Contains(data_line, "END OF TEC MAP") THEN row_data
             ELSE CollectRow(k, offset + 1,
                             IF LineFloats(data_line).ok
                             THEN row_data \o LineFloats(data_line).vals
                             ELSE row_data)

\* variant: the row is stored without the slice
RowSlice_Whole(row_data) == row_data

\* row_data[:len(lons)]
RowSlice(row_data) == SubSeq(row_data, 1, NLon)

\* the test that line k is a latitude line
IsLatLine(k) ==
    /\ NonBlank(At(k))
    /\ StrippedLen(At(k)) > 10
    /\ First8(At(k)).ok
    /\ -900 <= First8(At(k)).val /\ First8(At(k)).val <= 900
    /\ InLats(First8(At(k)).val)

\* one iteration of the while loop
ExtractStep ==
    /\ pc = "extract"
    /\ x_i < Len(lines) /\ lat_idx < NLat
    /\ IF IsLatLine(x_i)
       THEN LET row_data == CollectRow(x_i, 1, <<>>)
            IN  /\ IF Len(row_data) >= NLon
                   THEN /\ tec_matrix' = [tec_matrix EXCEPT ![lat_idx + 1] = RowSlice(row_data)]
                        /\ row_src' = [row_src EXCEPT ![lat_idx + 1] =
                                          [line |-> x_i, lat |-> First8(At(x_i)).val]]
                        /\ lat_idx' = lat_idx + 1
                   ELSE UNCHANGED <<tec_matrix, row_src, lat_idx>>
                /\ x_i' = x_i + Len(row_data) \div ValuesPerLine + 1
       ELSE /\ x_i' = x_i + 1
            /\ UNCHANGED <<tec_matrix, row_src, lat_idx>>
    /\ UNCHANGED <<lines, pc, header_info, h_i, i, j, epoch, data, result>>
    /\ UNCHANGED outside_parser

AllZero(m) == \A r \in 1..Len(m) : \A c \in 1..Len(m[r]) : m[r][c] = 0

\* epoch_hour of the generated data
EpochHour == IF Has(header_info, "start_time") THEN header_info["start_time"][4] ELSE 12

\* 20 + 10 sin(lat) + 5 cos(lon + epoch_hour pi / 12) on the grid, in tenths
Synthetic ==
    [r \in 1..NLat |-> [c \in 1..NLon |->
        200 + SinMilli(header_info["latitudes"][r]) \div 10
            + CosMilli(header_info["longitudes"][c] + 150 * EpochHour) \div 20]]

\* variant: go on where the extraction stopped
ResumeIndex_AfterExtract == x_i

\* variant: the scan goes on at the line it was at before the map
ResumeIndex_SameLine == i

\* where _parse_data goes on after a map: i = j, then i += 1
ResumeIndex == j + 1

\* the end of _extract_tec_data, and its caller appending the map and moving
\* on to the line after the epoch line; start and src record the first line
\* given to _extract_tec_data and the latitude line behind each row
ExtractReturn ==
    /\ pc = "extract"
    /\ ~(x_i < Len(lines) /\ lat_idx < NLat)
    /\ LET tec == IF AllZero(tec_matrix) THEN Synthetic ELSE tec_matrix
       IN  data' = Append(data, [epoch |-> epoch, tec |-> tec,
                                 start |-> j + 1, src |-> row_src])
    /\ i' = ResumeIndex
    /\ pc' = "data"
    /\ UNCHANGED <<lines, header_info, h_i, j, epoch, x_i, lat_idx, tec_matrix, row_src, result>>
    /\ UNCHANGED outside_parser

\* ------------------------------------------------------------------------
\* _parse_data
\* ------------------------------------------------------------------------

\* lines searched for the epoch line: range(i + 1, min(i + 10, len(lines)))
EpochWindow == 10

Min(a, b) == IF a < b THEN a ELSE b

\* the first line of the window after line k that holds EPOCH OF CURRENT
\* MAP, -1 if none
EpochLine(k) ==
    LET cand == {n \in (k + 1)..(Min(k + EpochWindow, Len(lines)) - 1) :
                    Contains(At(n), "EPOCH OF CURRENT MAP")}
    IN  IF cand = {} THEN -1 ELSE CHOOSE n \in cand : \A m \in cand : n <= m

\* one iteration of the while loop, up to the call of _extract_tec_data
DataStep ==
    /\ pc = "data"
    /\ i < Len(lines)
    /\ LET n == EpochLine(i)
       IN  IF Contains(At(i), "START OF TEC MAP") /\ n >= 0 /\ ParseEpoch(At(n)).ok
           THEN /\ j' = n
                /\ epoch' = ParseEpoch(At(n)).val
                /\ x_i' = n + 1
                /\ lat_idx' = 0
                /\ tec_matrix' = Zeros
                /\ row_src' = [r \in 1..NLat |-> Unfilled]
                /\ pc' = "extract"
                /\ UNCHANGED i
           ELSE /\ i' = i + 1
                /\ UNCHANGED <<j, epoch, x_i, lat_idx, tec_matrix, row_src, pc>>
    /\ UNCHANGED <<lines, header_info, h_i, data, result>>
    /\ UNCHANGED outside_parser

\* the end of _parse_data and of parse_ionex_file
DataReturn ==
    /\ pc = "data"
    /\ i >= Len(lines)
    /\ result' = IF data = <<>> THEN None
                 ELSE [kind |-> "dict",
                       lats |-> header_info["latitudes"],
                       lons |-> header_info["longitudes"],
                       data |-> data,
                       header |-> header_info]
    /\ pc' = "done"
    /\ UNCHANGED <<lines, header_info, h_i, i, j, epoch, data, x_i, lat_idx, tec_matrix, row_src>>
    /\ UNCHANGED outside_parser

\* ------------------------------------------------------------------------
\* Input files
\* ------------------------------------------------------------------------

\* "  87.5  82.5  -5.0                                          LAT1 / LAT2 / DLAT"
HLatOk ==
    [text |-> <<" ", " ", "8", "7", ".", "5", " ", " ", "8", "2", ".", "5", " ", " ", "-", "5", ".", "0">>,
     pad |-> 42, label |-> "LAT1 / LAT2 / DLAT"]

\* "  87.5  82.5   5.0                                          LAT1 / LAT2 / DLAT"
HLatBadSign ==
    [text |-> <<" ", " ", "8", "7", ".", "5", " ", " ", "8", "2", ".", "5", " ", " ", " ", "5", ".", "0">>,
     pad |-> 42, label |-> "LAT1 / LAT2 / DLAT"]

\* "  87.5  82.5   0.0                                          LAT1 / LAT2 / DLAT"
HLatZero ==
    [text |-> <<" ", " ", "8", "7", ".", "5", " ", " ", "8", "2", ".", "5", " ", " ", " ", "0", ".", "0">>,
     pad |-> 42, label |-> "LAT1 / LAT2 / DLAT"]

\* "  87.5  82.5                                                LAT1 / LAT2 / DLAT"
HLatShort ==
    [text |-> <<" ", " ", "8", "7", ".", "5", " ", " ", "8", "2", ".", "5">>,
     pad |-> 48, label |-> "LAT1 / LAT2 / DLAT"]

\* "-180.0 -170.0   5.0                                         LON1 / LON2 / DLON"
HLonOk ==
    [text |-> <<"-", "1", "8", "0", ".", "0", " ", "-", "1", "7", "0", ".", "0", " ", " ", " ", "5", ".", "0">>,
     pad |-> 41, label |-> "LON1 / LON2 / DLON"]

\* "-180.0 -170.0  -5.0                                         LON1 / LON2 / DLON"
HLonBadSign ==
    [text |-> <<"-", "1", "8", "0", ".", "0", " ", "-", "1", "7", "0", ".", "0", " ", " ", "-", "5", ".", "0">>,
     pad |-> 41, label |-> "LON1 / LON2 / DLON"]

\* "2024 1 1 0 0 0                                              EPOCH OF FIRST MAP"
HFirst ==
    [text |-> <<"2", "0", "2", "4", " ", "1", " ", "1", " ", "0", " ", "0", " ", "0">>,
     pad |-> 46, label |-> "EPOCH OF FIRST MAP"]

\* "3600                                                        INTERVAL"
HInterval ==
    [text |-> <<"3", "6", "0", "0">>,
     pad |-> 56, label |-> "INTERVAL"]

\* "2                                                           # OF MAPS IN FILE"
HNumMaps ==
    [text |-> <<"2">>,
     pad |-> 59, label |-> "# OF MAPS IN FILE"]

\* "                                                            END OF HEADER"
EndOfHeader ==
    [text |-> <<>>,
     pad |-> 60, label |-> "END OF HEADER"]

\* "1                                                           START OF TEC MAP"
StartTec ==
    [text |-> <<"1">>,
     pad |-> 59, label |-> "START OF TEC MAP"]

\* "1                                                           END OF TEC MAP"
EndTec ==
    [text |-> <<"1">>,
     pad |-> 59, label |-> "END OF TEC MAP"]

\* "1                                                           START OF RMS MAP"
StartRms ==
    [text |-> <<"1">>,
     pad |-> 59, label |-> "START OF RMS MAP"]

\* "1                                                           END OF RMS MAP"
EndRms ==
    [text |-> <<"1">>,
     pad |-> 59, label |-> "END OF RMS MAP"]

\* "2024 1 1 2 0 0                                              EPOCH OF CURRENT MAP"
Epoch1 ==
    [text |-> <<"2", "0", "2", "4", " ", "1", " ", "1", " ", "2", " ", "0", " ", "0">>,
     pad |-> 46, label |-> "EPOCH OF CURRENT MAP"]

\* "2024 1 1 0 0 0                                              EPOCH OF CURRENT MAP"
Epoch2 ==
    [text |-> <<"2", "0", "2", "4", " ", "1", " ", "1", " ", "0", " ", "0", " ", "0">>,
     pad |-> 46, label |-> "EPOCH OF CURRENT MAP"]

\* "2024 13 1 0 0 0                                             EPOCH OF CURRENT MAP"
EpochBad ==
    [text |-> <<"2", "0", "2", "4", " ", "1", "3", " ", "1", " ", "0", " ", "0", " ", "0">>,
     pad |-> 45, label |-> "EPOCH OF CURRENT MAP"]

\* "  87.5-180.0-170.0   5.0 450.0                              LAT/LON1/LON2/DLON/H"
RowGlued875 ==
    [text |-> <<" ", " ", "8", "7", ".", "5", "-", "1", "8", "0", ".", "0", "-", "1", "7", "0", ".", "0", " ", " ", " ", "5", ".", "0", " ", "4", "5", "0", ".", "0">>,
     pad |-> 30, label |-> "LAT/LON1/LON2/DLON/H"]

\* "  82.5-180.0-170.0   5.0 450.0                              LAT/LON1/LON2/DLON/H"
RowGlued825 ==
    [text |-> <<" ", " ", "8", "2", ".", "5", "-", "1", "8", "0", ".", "0", "-", "1", "7", "0", ".", "0", " ", " ", " ", "5", ".", "0", " ", "4", "5", "0", ".", "0">>,
     pad |-> 30, label |-> "LAT/LON1/LON2/DLON/H"]

\* "87.5    -180.0 -170.0 5.0 450.0                             LAT/LON1/LON2/DLON/H"
RowWide875 ==
    [text |-> <<"8", "7", ".", "5", " ", " ", " ", " ", "-", "1", "8", "0", ".", "0", " ", "-", "1", "7", "0", ".", "0", " ", "5", ".", "0", " ", "4", "5", "0", ".", "0">>,
     pad |-> 29, label |-> "LAT/LON1/LON2/DLON/H"]

\* "82.5    -180.0 -170.0 5.0 450.0                             LAT/LON1/LON2/DLON/H"
RowWide825 ==
    [text |-> <<"8", "2", ".", "5", " ", " ", " ", " ", "-", "1", "8", "0", ".", "0", " ", "-", "1", "7", "0", ".", "0", " ", "5", ".", "0", " ", "4", "5", "0", ".", "0">>,
     pad |-> 29, label |-> "LAT/LON1/LON2/DLON/H"]

\* "    1    2    3"
Data123 ==
    [text |-> <<" ", " ", " ", " ", "1", " ", " ", " ", " ", "2", " ", " ", " ", " ", "3">>,
     pad |-> 0, label |-> ""]

\* "    4    5    6"
Data456 ==
    [text |-> <<" ", " ", " ", " ", "4", " ", " ", " ", " ", "5", " ", " ", " ", " ", "6">>,
     pad |-> 0, label |-> ""]

\* "    7    8"
Data78 ==
    [text |-> <<" ", " ", " ", " ", "7", " ", " ", " ", " ", "8">>,
     pad |-> 0, label |-> ""]

\* "    0    0    0"
Data000 ==
    [text |-> <<" ", " ", " ", " ", "0", " ", " ", " ", " ", "0", " ", " ", " ", " ", "0">>,
     pad |-> 0, label |-> ""]

\* "    1    x    3"
Data1x3 ==
    [text |-> <<" ", " ", " ", " ", "1", " ", " ", " ", " ", "x", " ", " ", " ", " ", "3">>,
     pad |-> 0, label |-> ""]

\* ""
Blank ==
    [text |-> <<>>,
     pad |-> 0, label |-> ""]

\* most header lines before END OF HEADER and most map blocks of a file
MaxHdr == 3
MaxMaps == 2

SeqsUpTo(S, n) == UNION {[1..k -> S] : k \in 0..n}

RECURSIVE Flatten(_)
Flatten(ss) == IF ss = <<>> THEN <<>> ELSE Head(ss) \o Flatten(Tail(ss))

HeaderLines ==
    {HLatOk, HLatBadSign, HLatZero, HLatShort, HLonOk, HLonBadSign, HFirst}

\* the regular header of the files with map blocks
GoodHeader == <<HLatOk, HLonOk, HNumMaps, EndOfHeader>>

GoodBlock == <<StartTec, Epoch1, RowWide875, Data123, RowWide825, Data456, EndTec>>

\* map blocks: the regular one; a first row that is one value short; a
\* missing second row; no rows; rows in the other order; an invalid epoch;
\* an earlier epoch; latitude lines as IONEX writes them; a map of zeros; a
\* token that is not a number; a row on two lines; a blank line and no END
\* OF TEC MAP; an RMS map; header keywords after the header
Blocks ==
    {GoodBlock,
     <<StartTec, Epoch1, RowWide875, Data78, RowWide825, Data456, EndTec>>,
     <<StartTec, Epoch1, RowWide875, Data123, EndTec>>,
     <<StartTec, Epoch1, EndTec>>,
     <<StartTec, Epoch1, RowWide825, Data456, RowWide875, Data123, EndTec>>,
     <<StartTec, EpochBad, RowWide875, Data123, RowWide825, Data456, EndTec>>,
     <<StartTec, Epoch2, RowWide875, Data456, RowWide825, Data123, EndTec>>,
     <<StartTec, Epoch1, RowGlued875, Data123, RowGlued825, Data456, EndTec>>,
     <<StartTec, Epoch1, RowWide875, Data000, RowWide825, Data000, EndTec>>,
     <<StartTec, Epoch1, RowWide875, Data1x3, RowWide825, Data456, EndTec>>,
     <<StartTec, Epoch1, RowWide875, Data78, Data456, RowWide825, Data456, EndTec>>,
     <<StartTec, Epoch1, RowWide875, Data78, Blank, RowWide825, Data456>>,
     <<StartRms, Epoch1, RowWide875, Data456, RowWide825, Data456, EndRms>>,
     <<HLatBadSign, HInterval>>}

\* any header before a regular map, with or without END OF HEADER
HeaderFiles ==
    {hs \o tail : hs \in SeqsUpTo(HeaderLines, MaxHdr),
                   tail \in {<<EndOfHeader>> \o GoodBlock,
                             <<EndOfHeader, HLonBadSign, HNumMaps>> \o GoodBlock,
                             GoodBlock}}

\* a regular header before any map blocks
BodyFiles ==
    {GoodHeader \o Flatten(bs) : bs \in SeqsUpTo(Blocks, MaxMaps)}

Files == HeaderFiles \cup BodyFiles

\* ------------------------------------------------------------------------
\* Input files with axes whose end is off the grid and with long or partly
\* unreadable data lines
\* ------------------------------------------------------------------------

\* "  87.5  80.0  -5.0                                          LAT1 / LAT2 / DLAT"
HLatHalf ==
    [text |-> <<" ", " ", "8", "7", ".", "5", " ", " ", "8", "0", ".", "0", " ", " ", "-", "5", ".", "0">>,
     pad |-> 42, label |-> "LAT1 / LAT2 / DLAT"]

\* "  80.0  82.5   5.0                                          LAT1 / LAT2 / DLAT"
HLatUp ==
    [text |-> <<" ", " ", "8", "0", ".", "0", " ", " ", "8", "2", ".", "5", " ", " ", " ", "5", ".", "0">>,
     pad |-> 42, label |-> "LAT1 / LAT2 / DLAT"]

\* "-180.0 -172.0   5.0                                         LON1 / LON2 / DLON"
HLonPast ==
    [text |-> <<"-", "1", "8", "0", ".", "0", " ", "-", "1", "7", "2", ".", "0", " ", " ", " ", "5", ".", "0">>,
     pad |-> 41, label |-> "LON1 / LON2 / DLON"]

\* "-180.0 -173.0   5.0                                         LON1 / LON2 / DLON"
HLonShortOf ==
    [text |-> <<"-", "1", "8", "0", ".", "0", " ", "-", "1", "7", "3", ".", "0", " ", " ", " ", "5", ".", "0">>,
     pad |-> 41, label |-> "LON1 / LON2 / DLON"]

\* "-180.0 -167.5   5.0                                         LON1 / LON2 / DLON"
HLonHalf ==
    [text |-> <<"-", "1", "8", "0", ".", "0", " ", "-", "1", "6", "7", ".", "5", " ", " ", " ", "5", ".", "0">>,
     pad |-> 41, label |-> "LON1 / LON2 / DLON"]

\* "1 2 3 4 5 6 7 8 9 1 2 3 4 5 6 7"
Data16 ==
    [text |-> <<"1", " ", "2", " ", "3", " ", "4", " ", "5", " ", "6", " ", "7", " ", "8", " ", "9", " ", "1", " ", "2", " ", "3", " ", "4", " ", "5", " ", "6", " ", "7">>,
     pad |-> 0, label |-> ""]

\* "1 2 3 4 5 6 7 8 9 1 2 3 4 5 6 7 8 9 1 2 3 4 5 6 7 8 9 1 2 3 4 5"
Data32 ==
    [text |-> <<"1", " ", "2", " ", "3", " ", "4", " ", "5", " ", "6", " ", "7", " ", "8", " ", "9", " ", "1", " ", "2", " ", "3", " ", "4", " ", "5", " ", "6", " ", "7", " ", "8", " ", "9", " ", "1", " ", "2", " ", "3", " ", "4", " ", "5", " ", "6", " ", "7", " ", "8", " ", "9", " ", "1", " ", "2", " ", "3", " ", "4", " ", "5">>,
     pad |-> 0, label |-> ""]

\* the headers: the regular one, and axes whose (end - start) / step is 1.5,
\* 0.5, 1.6, 1.4 and 2.5
EdgeHeaders ==
    {<<HLatOk, HLonOk, EndOfHeader>>,
     <<HLatHalf, HLonOk, EndOfHeader>>,
     <<HLatUp, HLonOk, EndOfHeader>>,
     <<HLatOk, HLonPast, EndOfHeader>>,
     <<HLatOk, HLonShortOf, EndOfHeader>>,
     <<HLatOk, HLonHalf, EndOfHeader>>}

\* map blocks: the regular one; a token that is not a number before a
\* complete line; sixteen values on one line; thirty-two values on one
\* line; two START OF TEC MAP lines before one epoch line; an invalid epoch
\* line between two START OF TEC MAP lines
EdgeBlocks ==
    {GoodBlock,
     <<StartTec, Epoch1, RowWide875, Data1x3, Data456, RowWide825, Data123, EndTec>>,
     <<StartTec, Epoch1, RowWide875, Data16, RowWide825, Data456, EndTec>>,
     <<StartTec, Epoch1, RowWide875, Data32, RowWide825, Data456, EndTec>>,
     <<StartTec, StartTec, Epoch2, RowWide875, Data456, RowWide825, Data123, EndTec>>,
     <<StartTec, EpochBad, StartTec, EndTec>>}

EdgeFiles ==
    {hs \o Flatten(bs) : hs \in EdgeHeaders, bs \in SeqsUpTo(EdgeBlocks, 2)}

\* no calculator has been constructed
NoCalculator ==
    /\ tec_data = None
    /\ Re = 0
    /\ height = 0
    /\ interpolators = <<>>
    /\ call = None
    /\ rets = <<>>

\* no height finder has been constructed
NoFinder ==
    /\ metadata = <<>>
    /\ raster = <<>>
    /\ query = None
    /\ heights = <<>>
    /\ reads = {}

\* no converter runs
NoConverter ==
    /\ program = ""
    /\ label = <<>>
    /\ img = <<>>
    /\ cpc = "done"
    /\ params = <<>>
    /\ dtype = ""
    /\ samples = <<>>
    /\ output = None
    /\ converted = None

\* no cylindrical DEM has been loaded
NoDem ==
    /\ LINES = 0
    /\ LINE_SAMPLES = 0
    /\ elevation_data = <<>>
    /\ coords = None
    /\ pixels = <<>>
    /\ elevations = <<>>

Init ==
    /\ lines \in Files
    /\ pc = "header"
    /\ header_info = <<>>
    /\ h_i = 0
    /\ i = 0
    /\ j = -1
    /\ epoch = <<>>
    /\ data = <<>>
    /\ x_i = 0
    /\ lat_idx = 0
    /\ tec_matrix = <<>>
    /\ row_src = <<>>
    /\ result = Pending
    /\ NoCalculator
    /\ NoFinder
    /\ NoConverter
    /\ NoDem

Next ==
    \/ HeaderLine
    \/ HeaderReturn
    \/ DataStep
    \/ ExtractStep
    \/ ExtractReturn
    \/ DataReturn

Spec == Init /\ [][Next]_vars

\* parse_ionex_file on the files of EdgeFiles
EdgeInit ==
    /\ lines \in EdgeFiles
    /\ pc = "header"
    /\ header_info = <<>>
    /\ h_i = 0
    /\ i = 0
    /\ j = -1
    /\ epoch = <<>>
    /\ data = <<>>
    /\ x_i = 0
    /\ lat_idx = 0
    /\ tec_matrix = <<>>
    /\ row_src = <<>>
    /\ result = Pending
    /\ NoCalculator
    /\ NoFinder
    /\ NoConverter
    /\ NoDem

EdgeSpec == EdgeInit /\ [][Next]_vars

\* the parser is one sequential call that takes its next step as long as it
\* has one: weak fairness of Next. Every position but "done" has a step, so
\* ENABLED <<Next>>_vars is pc # "done", and the fairness condition is
\* written with that state predicate in its place
EdgeFairSpec == EdgeSpec /\ ([]<>(pc = "done") \/ []<><<Next>>_vars)

\* ------------------------------------------------------------------------
\* IonosphericDelayCalculator
\* Angles are in tenths of a degree, sines, cosines, TEC values and the
\* mapping function in thousandths, frequencies in units of 10 MHz,
\* delay_m in millimetres and delay_ns in picoseconds.
\* ------------------------------------------------------------------------

\* np.nan
NaN == -999999

Sin(t) == IF t = NaN THEN NaN ELSE SinMilli(t)

Cos(t) == IF t = NaN THEN NaN ELSE CosMilli(t)

\* the largest angle of lo..hi whose sine is at most s
RECURSIVE ArcSinSearch(_, _, _)
ArcSinSearch(s, lo, hi) ==
    IF lo = hi THEN lo
    ELSE LET mid == (lo + hi + 1) \div 2
         IN  IF SinMilli(mid) <= s THEN ArcSinSearch(s, mid, hi)
             ELSE ArcSinSearch(s, lo, mid - 1)

\* np.arcsin: nan outside [-1, 1]
ArcSin(s) ==
    IF s = NaN \/ s < -1000 \/ s > 1000 THEN NaN
    ELSE ArcSinSearch(s, -900, 900)

Complement_Identity(elevation) == elevation

\* 90 - elevation
Complement(elevation) == IF elevation = NaN THEN NaN ELSE 900 - elevation

\* (self.Re / (self.Re + self.h)) * x
ShellRatio(x) == IF x = NaN THEN NaN ELSE (Re * x) \div (Re + height)

calculate_mapping_function(elevation) ==
    LET sin_E_prime == ShellRatio(Sin(Complement(elevation)))
        E_prime == ArcSin(sin_E_prime)
    IN  IF E_prime = NaN THEN NaN ELSE 1000000 \div Cos(E_prime)

\* (lon_ip + 180) % 360 - 180
NormLon(lon_ip) == IF lon_ip = NaN THEN NaN ELSE ((lon_ip + 1800) % 3600) - 1800

calculate_pierce_point(lat, lon, elevation, azimuth) ==
    LET psi == ArcSin(ShellRatio(Cos(elevation)))
        lat_ip == IF psi = NaN THEN NaN
                  ELSE ArcSin((Sin(lat) * Cos(psi)
                               + ((Cos(lat) * Sin(psi)) \div 1000) * Cos(azimuth))
                              \div 1000)
        delta_lon == IF lat_ip = NaN \/ Cos(lat_ip) = 0 THEN NaN
                     ELSE ArcSin((Sin(psi) * Sin(azimuth)) \div Cos(lat_ip))
        lon_ip == IF delta_lon = NaN THEN NaN ELSE lon + delta_lon
    IN  <<lat_ip, NormLon(lon_ip)>>

Abs(x) == IF x < 0 THEN -x ELSE x

StrictlyMonotonic(ax) ==
    \/ \A k \in 1..(Len(ax) - 1) : ax[k] < ax[k + 1]
    \/ \A k \in 1..(Len(ax) - 1) : ax[k] > ax[k + 1]

\* RegularGridInterpolator((lats, lons), tec) accepts the grid
Buildable(lats, lons, tec) ==
    /\ Len(lats) >= 2
    /\ Len(lons) >= 2
    /\ StrictlyMonotonic(lats)
    /\ StrictlyMonotonic(lons)
    /\ Len(tec) = Len(lats)
    /\ \A r \in 1..Len(tec) : Len(tec[r]) = Len(lons)

\* _create_interpolators: an interpolator is the index of its grid, or None
create_interpolators(td) ==
    [g \in 1..Len(td.data) |->
        IF Buildable(td.lats, td.lons, td.data[g].tec) THEN [kind |-> "interp", grid |-> g]
        ELSE None]

Between(ax, k, x) ==
    \/ ax[k] <= x /\ x <= ax[k + 1]
    \/ ax[k + 1] <= x /\ x <= ax[k]

InAxis(ax, x) == x # NaN /\ \E k \in 1..(Len(ax) - 1) : Between(ax, k, x)

Cell(ax, x) ==
    CHOOSE k \in 1..(Len(ax) - 1) :
        Between(ax, k, x) /\ \A m \in 1..(k - 1) : ~Between(ax, m, x)

\* interp([lat, lon])[0] with bounds_error=False, fill_value=np.nan
Interpolate(g, lat, lon) ==
    LET lats == tec_data.lats
        lons == tec_data.lons
        tec == tec_data.data[g].tec
    IN  IF ~InAxis(lats, lat) \/ ~InAxis(lons, lon) THEN NaN
        ELSE LET r == Cell(lats, lat)
                 c == Cell(lons, lon)
                 dy == lats[r + 1] - lats[r]
                 dx == lons[c + 1] - lons[c]
                 ny == lat - lats[r]
                 nx == lon - lons[c]
             IN  (1000 * (tec[r][c] * (dy - ny) * (dx - nx)
                          + tec[r][c + 1] * (dy - ny) * nx
                          + tec[r + 1][c] * ny * (dx - nx)
                          + tec[r + 1][c + 1] * ny * nx)) \div (dy * dx)

\* np.argmin(np.abs(ax - x)), 0-based; 0 when every distance is nan
ArgMin(ax, x) ==
    IF x = NaN THEN 0
    ELSE (CHOOSE k \in 1..Len(ax) :
            /\ \A m \in 1..Len(ax) : Abs(ax[k] - x) <= Abs(ax[m] - x)
            /\ \A m \in 1..(k - 1) : Abs(ax[m] - x) > Abs(ax[k] - x)) - 1

\* the raised exception leaves the method
Raised(e) == [kind |-> "raise", exc |-> e]

Float(v) == [kind |-> "float", v |-> v]

SelectIndex_Zero(time_index) == 0

\* time_index after the range check of calculate_delay
SelectIndex(time_index) ==
    IF time_index >= Len(interpolators) THEN 0 ELSE time_index

\* the grid (1-based) python's self.interpolators[t] picks, 0 for IndexError
Picked(t) ==
    IF t >= 0 /\ t < Len(interpolators) THEN t + 1
    ELSE IF t < 0 /\ -t <= Len(interpolators) THEN Len(interpolators) + t + 1
    ELSE 0

NearestIndex_Unclamped(ax, x) == IF x = NaN THEN 0 ELSE (x - ax[1]) \div (ax[2] - ax[1])

NearestIndex(ax, x) == ArgMin(ax, x)

\* (40.31 * 1e16 / (frequency**2)) * stec
DelayMetres(stec, frequency) ==
    IF stec = NaN THEN NaN ELSE (4031 * stec) \div (frequency * frequency)

\* delay_m * 1e9 / 299792458
DelayNanos(delay_m) ==
    IF delay_m = NaN THEN NaN ELSE (delay_m * 100000) \div (299792458 \div 10000)

calculate_delay(lat, lon, elevation, frequency, time_index) ==
    LET t == SelectIndex(time_index)
        g == Picked(t)
    IN  IF g = 0 THEN Raised("IndexError")
        ELSE IF interpolators[g] = None THEN None
        ELSE LET sampled == Interpolate(interpolators[g].grid, lat, lon)
                 row == NearestIndex(tec_data.lats, lat)
                 col == NearestIndex(tec_data.lons, lon)
                 inside == row \in 0..(Len(tec_data.lats) - 1)
                           /\ col \in 0..(Len(tec_data.lons) - 1)
                 vtec == IF sampled # NaN THEN sampled
                         ELSE 1000 * tec_data.data[g].tec[row + 1][col + 1]
                 m_E == calculate_mapping_function(elevation)
                 stec == IF m_E = NaN THEN NaN ELSE (vtec * m_E) \div 1000
                 delay_m == DelayMetres(stec, frequency)
             IN  IF sampled = NaN /\ ~inside THEN None   \* IndexError, caught
                 ELSE IF frequency = 0 THEN None          \* ZeroDivisionError, caught
                 ELSE [kind |-> "dict",
                       vtec |-> vtec,
                       stec |-> stec,
                       mapping_function |-> m_E,
                       delay_m |-> delay_m,
                       delay_ns |-> DelayNanos(delay_m),
                       frequency_hz |-> frequency,
                       elevation_deg |-> elevation,
                       time_index |-> t,
                       grid |-> g,
                       node |-> IF sampled # NaN THEN <<>> ELSE <<row, col>>]

calculate_delay_for_satellite(lat, lon, elevation, azimuth, frequency, time_index) ==
    LET ipp == calculate_pierce_point(lat, lon, elevation, azimuth)
        delay_result == calculate_delay(ipp[1], ipp[2], elevation, frequency, time_index)
    IN  IF delay_result = None THEN None
        ELSE IF delay_result.kind = "raise" THEN delay_result
        ELSE [kind |-> "dict", ipp |-> ipp, delay |-> delay_result]

\* the calls made on one calculator, and the grids it is built from

Map1 == [epoch |-> <<2024, 1, 1, 0, 0, 0>>, tec |-> <<<<4, 5, 6>>, <<1, 2, 3>>>>]

Map2 == [epoch |-> <<2024, 1, 1, 2, 0, 0>>, tec |-> <<<<9, 8, 7>>, <<12, 11, 10>>>>]

TecDatas ==
    {[kind |-> "dict", lats |-> <<875, 825>>, lons |-> <<-1800, -1750, -1700>>, data |-> d] :
        d \in {<<Map1>>, <<Map1, Map2>>}}

Calls ==
    [lat : {900, 875, 850, 800},
     lon : {-1850, -1800, -1775, 0},
     elevation : {-100, 0, 50, 300, 600, 900, 1000, NaN},
     azimuth : {0, 900},
     frequency : {160, 0, -160},
     time_index : {-1, 0, 1, 2}]

Methods ==
    {"calculate_mapping_function", "calculate_pierce_point", "calculate_delay",
     "calculate_delay_for_satellite"}

\* the parser is not running
ParserDone ==
    /\ lines = <<>>
    /\ pc = "done"
    /\ header_info = <<>>
    /\ h_i = 0
    /\ i = 0
    /\ j = -1
    /\ epoch = <<>>
    /\ data = <<>>
    /\ x_i = 0
    /\ lat_idx = 0
    /\ tec_matrix = <<>>
    /\ row_src = <<>>
    /\ result = None

\* IonosphericDelayCalculator(tec_data), then one set of arguments
CalcInit ==
    /\ ParserDone
    /\ NoFinder
    /\ NoConverter
    /\ NoDem
    /\ tec_data \in TecDatas
    /\ Re = 6371
    /\ height = 450
    /\ interpolators = create_interpolators(tec_data)
    /\ call \in Calls
    /\ rets = [m \in Methods |-> Pending]

Returns(m, v) ==
    /\ rets[m] = Pending
    /\ rets' = [rets EXCEPT ![m] = v]

CalcFrame_DropsGrid ==
    /\ tec_data' = [tec_data EXCEPT !.data = <<Head(tec_data.data)>>]
    /\ interpolators' = <<Head(interpolators)>>
    /\ UNCHANGED <<Re, height, call>>
    /\ UNCHANGED <<parser_vars, finder_vars, converter_vars, dem_vars>>

\* what a method leaves as it found it
CalcFrame ==
    /\ UNCHANGED <<tec_data, Re, height, interpolators, call>>
    /\ UNCHANGED <<parser_vars, finder_vars, converter_vars, dem_vars>>

CalculateMappingFunction ==
    /\ Returns("calculate_mapping_function", Float(calculate_mapping_function(call.elevation)))
    /\ CalcFrame

CalculatePiercePoint ==
    /\ Returns("calculate_pierce_point",
               [kind |-> "tuple",
                v |-> calculate_pierce_point(call.lat, call.lon, call.elevation, call.azimuth)])
    /\ CalcFrame

CalculateDelay ==
    /\ Returns("calculate_delay",
               calculate_delay(call.lat, call.lon, call.elevation, call.frequency,
                               call.time_index))
    /\ CalcFrame

CalculateDelayForSatellite ==
    /\ Returns("calculate_delay_for_satellite",
               calculate_delay_for_satellite(call.lat, call.lon, call.elevation, call.azimuth,
                                             call.frequency, call.time_index))
    /\ CalcFrame

CalcNext ==
    \/ CalculateMappingFunction
    \/ CalculatePiercePoint
    \/ CalculateDelay
    \/ CalculateDelayForSatellite

CalcSpec == CalcInit /\ [][CalcNext]_vars

\* ------------------------------------------------------------------------
\* LunarDEMHeightFinder
\* Angles are in tenths of a degree, a_axis_radius in tenths of a km,
\* map_scale in metres, pixel coordinates in sixteenths of a pixel, raster
\* values in metres and interpolated heights in 1/256 of a metre.
\* Floating-point products and sums are rounded to MantissaBits significant
\* bits, as IEEE arithmetic rounds them to 53.
\* ------------------------------------------------------------------------

MantissaBits == 8

RECURSIVE BitLen(_)
BitLen(n) == IF n = 0 THEN 0 ELSE 1 + BitLen(n \div 2)

RECURSIVE Pow2(_)
Pow2(k) == IF k = 0 THEN 1 ELSE 2 * Pow2(k - 1)

\* n >= 0 rounded to the nearest number of MantissaBits significant bits,
\* ties to even
RoundSig(n) ==
    IF BitLen(n) <= MantissaBits THEN n
    ELSE LET q == Pow2(BitLen(n) - MantissaBits)
             lo == (n \div q) * q
             rem == n - lo
         IN  IF 2 * rem < q THEN lo
             ELSE IF 2 * rem > q THEN lo + q
             ELSE IF (n \div q) % 2 = 0 THEN lo ELSE lo + q

\* the floating-point result of an operation whose exact result is x
Fl(x) == IF x < 0 THEN -RoundSig(-x) ELSE RoundSig(x)

TanMilli(t) == (1000 * SinMilli(t)) \div CosMilli(t)

\* dict.get(key, default)
Get(d, key, default) == IF Has(d, key) THEN d[key] ELSE default

required_params ==
    {"map_scale", "sample_projection_offset", "line_projection_offset",
     "center_latitude", "center_longitude", "a_axis_radius"}

NonePair == [kind |-> "NonePair"]

LatitudeOutside_BelowOnly(lat) == lat < Get(metadata, "minimum_latitude", 450)

\* lat < min_lat or lat > max_lat
LatitudeOutside(lat) ==
    \/ lat < Get(metadata, "minimum_latitude", 450)
    \/ lat > Get(metadata, "maximum_latitude", 900)

latlon_to_pixel(lat, lon) ==
    IF \E param \in required_params : ~Has(metadata, param) THEN NonePair
    ELSE IF LatitudeOutside(lat) THEN NonePair
    ELSE LET R == metadata["a_axis_radius"] * 100
             chi == 900 - lat
             r == (2 * R * TanMilli(chi \div 2)) \div 1000
             theta == lon - Get(metadata, "center_longitude", 0)
             x == (r * CosMilli(theta)) \div 1000
             y == (r * SinMilli(theta)) \div 1000
         IN  [kind |-> "tuple",
              px |-> (x * 16) \div metadata["map_scale"] + metadata["sample_projection_offset"],
              py |-> (y * 16) \div metadata["map_scale"] + metadata["line_projection_offset"]]

nrows == Len(raster)

ncols == Len(raster[1])

OutsideRaster(px, py) ==
    px < 0 \/ px >= 16 * ncols \/ py < 0 \/ py >= 16 * nrows

Floor(px) == px \div 16

Ceil(px) == -((-px) \div 16)

\* np.round: to the nearest integer, ties to even
Round(px) ==
    LET f == Floor(px)
        rem == px - 16 * f
    IN  IF rem < 8 THEN f
        ELSE IF rem > 8 THEN f + 1
        ELSE IF f % 2 = 0 THEN f ELSE f + 1

\* self.elevation[y, x]
Pixel(y, x) == raster[y + 1][x + 1]

Height(v, cells) == [kind |-> "float", v |-> v, cells |-> cells]

NoHeight == [kind |-> "None", cells |-> {}]

get_height_at_latlon(lat, lon) ==
    LET p == latlon_to_pixel(lat, lon)
    IN  IF p = NonePair THEN NoHeight
        ELSE IF OutsideRaster(p.px, p.py) THEN NoHeight
        ELSE LET x == Round(p.px)
                 y == Round(p.py)
             IN  IF x >= ncols \/ y >= nrows
                 THEN [kind |-> "raise", exc |-> "IndexError", cells |-> {}]
                 ELSE Height(Pixel(y, x), {<<y, x>>})

Clamp(k, n) == IF k < 0 THEN 0 ELSE IF k > n - 1 THEN n - 1 ELSE k

Weight_FromCeil(px, x1) == px - 16 * Ceil(px)

\* wx = px - x1
Weight(px, x1) == px - 16 * x1

get_height_interpolated(lat, lon) ==
    LET p == latlon_to_pixel(lat, lon)
    IN  IF p = NonePair THEN NoHeight
        ELSE IF OutsideRaster(p.px, p.py) THEN NoHeight
        ELSE LET x1 == Clamp(Floor(p.px), ncols)
                 x2 == Clamp(Ceil(p.px), ncols)
                 y1 == Clamp(Floor(p.py), nrows)
                 y2 == Clamp(Ceil(p.py), nrows)
                 wx == Weight(p.px, x1)
                 wy == Weight(p.py, y1)
                 t11 == Fl(Fl((16 - wx) * (16 - wy)) * Pixel(y1, x1))
                 t12 == Fl(Fl(wx * (16 - wy)) * Pixel(y1, x2))
                 t21 == Fl(Fl((16 - wx) * wy) * Pixel(y2, x1))
                 t22 == Fl(Fl(wx * wy) * Pixel(y2, x2))
             IN  Height(Fl(Fl(Fl(t11 + t12) + t21) + t22),
                        {<<y1, x1>>, <<y1, x2>>, <<y2, x1>>, <<y2, x2>>})

\* the rasters, the metadata and the queries

RasterA ==
    << <<12, 12, 30, -7>>,
       <<12, 43, 43, 5>>,
       <<-21, 43, 43, 9>>,
       <<8, 9, 10, 11>> >>

RasterB == [r \in 1..4 |-> [c \in 1..4 |-> 43]]

Offsets == {16, 24, 21, 27, 40}

BaseMetadata(cx, cy) ==
    [k \in required_params |->
        CASE k = "map_scale" -> 100000
          [] k = "sample_projection_offset" -> cx
          [] k = "line_projection_offset" -> cy
          [] k = "center_latitude" -> 900
          [] k = "center_longitude" -> 0
          [] k = "a_axis_radius" -> 17374]

WithLimits(m) == SetKey(SetKey(m, "minimum_latitude", 800), "maximum_latitude", 900)

Without(m, key) == [k \in DOMAIN m \ {key} |-> m[k]]

Metadatas ==
    {BaseMetadata(cx, cy) : cx \in Offsets, cy \in Offsets}
    \cup {WithLimits(BaseMetadata(cx, cy)) : cx \in Offsets, cy \in Offsets}
    \cup {Without(BaseMetadata(24, 24), "map_scale")}

Queries == [lat : {900, 860, 800, 700, 440, 910}, lon : {0, 900}]

finder_methods == {"latlon_to_pixel", "get_height_at_latlon", "get_height_interpolated"}

\* LunarDEMHeightFinder(npz_file), then one query
FinderInit ==
    /\ ParserDone
    /\ NoCalculator
    /\ NoConverter
    /\ NoDem
    /\ metadata \in Metadatas
    /\ raster \in {RasterA, RasterB}
    /\ query \in Queries
    /\ heights = [m \in finder_methods |-> Pending]
    /\ reads = {}

FinderFrame ==
    /\ UNCHANGED <<metadata, raster, query>>
    /\ UNCHANGED <<parser_vars, calc_vars, converter_vars, dem_vars>>

LatlonToPixel ==
    /\ heights["latlon_to_pixel"] = Pending
    /\ heights' = [heights EXCEPT !["latlon_to_pixel"] = latlon_to_pixel(query.lat, query.lon)]
    /\ UNCHANGED reads
    /\ FinderFrame

GetHeightAtLatlon ==
    /\ heights["get_height_at_latlon"] = Pending
    /\ LET ret == get_height_at_latlon(query.lat, query.lon)
       IN  /\ heights' = [heights EXCEPT !["get_height_at_latlon"] = ret]
           /\ reads' = reads \cup ret.cells
    /\ FinderFrame

GetHeightInterpolated ==
    /\ heights["get_height_interpolated"] = Pending
    /\ LET ret == get_height_interpolated(query.lat, query.lon)
       IN  /\ heights' = [heights EXCEPT !["get_height_interpolated"] = ret]
           /\ reads' = reads \cup ret.cells
    /\ FinderFrame

FinderNext ==
    \/ LatlonToPixel
    \/ GetHeightAtLatlon
    \/ GetHeightInterpolated

FinderSpec == FinderInit /\ [][FinderNext]_vars

\* ------------------------------------------------------------------------
\* The DEM converters: convert_ldem_to_meters_corrected (cyl/main.py),
\* convert_polar_ldem_to_meters (polar/converter_to_meters.py) and
\* convert_ldem_to_meters (cyl/converter_to_meters.py).
\* A label is the function from the keywords it holds to their values;
\* scaling factors and output heights are in tenths.
\* ------------------------------------------------------------------------

Programs == {"cyl_main", "polar_converter", "cyl_converter"}

\* the keyword each pattern of the label parser looks for
Keyword(key) ==
    CASE key = "lines" -> "LINES"
      [] key = "line_samples" -> "LINE_SAMPLES"
      [] key = "scaling_factor" -> "SCALING_FACTOR"
      [] key = "offset" -> "OFFSET"
      [] key = "sample_bits" -> "SAMPLE_BITS"
      [] key = "sample_type" -> "SAMPLE_TYPE"

\* the keys the patterns of each label parser extract
Patterns(prog) ==
    IF prog = "cyl_main"
    THEN {"lines", "line_samples", "scaling_factor", "offset", "sample_bits", "sample_type"}
    ELSE {"lines", "line_samples", "scaling_factor", "offset", "sample_bits"}

\* defaults = {...} of parse_polar_pds_label
PolarDefaults == [sample_bits |-> 16, scaling_factor |-> 5, offset |-> 1737400]

Matched(prog, lbl) == {key \in Patterns(prog) : Has(lbl, Keyword(key))}

\* parse_pds_label_detailed, parse_polar_pds_label, parse_pds_label
ParseLabel(prog, lbl) ==
    [key \in Matched(prog, lbl)
             \cup (IF prog = "polar_converter" THEN DOMAIN PolarDefaults ELSE {}) |->
        IF key \in Matched(prog, lbl) THEN lbl[Keyword(key)] ELSE PolarDefaults[key]]

\* None, where params.get(key) is expected to give a number
Absent == -1

\* params.get(key): None when the key is absent
GetOrNone(d, key) == Get(d, key, Absent)

\* the values the converter takes out of params
Setting(prog, key) ==
    IF prog = "cyl_main"
    THEN CASE key = "scaling_factor" -> Get(params, key, 5)
           [] key = "offset" -> Get(params, key, 1737400)
           [] key = "lines" -> Get(params, key, 11520)
           [] key = "line_samples" -> Get(params, key, 23040)
           [] key = "sample_bits" -> Get(params, key, 16)
           [] key = "sample_type" -> Get(params, key, "LSB_INTEGER")
    ELSE IF prog = "polar_converter"
    THEN CASE key = "scaling_factor" -> Get(params, key, 5)
           [] key = "offset" -> Get(params, key, 1737400)
           [] key = "sample_bits" -> Get(params, key, 16)
           [] OTHER -> GetOrNone(params, key)
    ELSE GetOrNone(params, key)

\* the dtype each converter derives from SAMPLE_BITS (and SAMPLE_TYPE)
ChooseDtype(prog) ==
    IF prog = "cyl_main"
    THEN IF Setting(prog, "sample_bits") = 16
         THEN IF Setting(prog, "sample_type") = "LSB_INTEGER" THEN "<i2" ELSE ">i2"
         ELSE ">i4"
    ELSE IF prog = "polar_converter"
    THEN IF Setting(prog, "sample_bits") = 16 THEN "<i2"
         ELSE IF Setting(prog, "sample_bits") = 32 THEN "<i4"
         ELSE "<i2"
    ELSE IF Setting(prog, "sample_bits") = 16 THEN ">i2" ELSE ">i4"

\* the dtype of the second attempt
AltDtype(prog) ==
    IF prog = "cyl_main"
    THEN IF dtype = "<i2" THEN ">i2" ELSE "<i2"
    ELSE IF Setting(prog, "sample_bits") = 16 THEN ">i2" ELSE ">i4"

ItemSize(d) == IF d \in {"<i2", ">i2"} THEN 2 ELSE 4

LittleEndian(d) == d \in {"<i2", "<i4"}

\* the unsigned value of bytes b[from..from+n-1], least significant first
RECURSIVE Unsigned(_, _, _)
Unsigned(b, from, n) ==
    IF n = 0 THEN 0
    ELSE IF n = 1 THEN b[from]
    ELSE b[from] + 256 * Unsigned(b, from + 1, n - 1)

Reverse(b) == [k \in 1..Len(b) |-> b[Len(b) + 1 - k]]

\* one two's complement integer of n bytes
Signed(b, n) ==
    LET top == b[n]
        low == Unsigned(b, 1, n - 1)
    IN  IF top >= 128 THEN (top - 256) * Pow2(8 * (n - 1)) + low
        ELSE top * Pow2(8 * (n - 1)) + low

\* np.fromfile(f, dtype=d): whole items only
Decode(bytes, d) ==
    LET n == ItemSize(d)
    IN  [k \in 1..(Len(bytes) \div n) |->
            LET item == SubSeq(bytes, (k - 1) * n + 1, k * n)
            IN  Signed(IF LittleEndian(d) THEN item ELSE Reverse(item), n)]

File(rows) == [kind |-> "file", rows |-> rows]

Finish(v) ==
    /\ converted' = v
    /\ cpc' = "done"

ConvParse ==
    /\ cpc = "parse"
    /\ params' = ParseLabel(program, label)
    /\ IF program = "cyl_main" /\ DOMAIN ParseLabel(program, label) = {}
       THEN Finish(None)
       ELSE cpc' = "dtype" /\ UNCHANGED converted
    /\ UNCHANGED <<program, label, img, dtype, samples, output>>
    /\ UNCHANGED <<parser_vars, calc_vars, finder_vars, dem_vars>>

ConvDtype ==
    /\ cpc = "dtype"
    /\ dtype' = ChooseDtype(program)
    /\ cpc' = "read"
    /\ UNCHANGED <<program, label, img, params, samples, output, converted>>
    /\ UNCHANGED <<parser_vars, calc_vars, finder_vars, dem_vars>>

\* np.fromfile either delivers the samples or raises
ConvRead ==
    /\ cpc = "read"
    /\ \E fails \in BOOLEAN :
        IF ~fails
        THEN /\ samples' = Decode(img, dtype)
             /\ cpc' = "size"
             /\ UNCHANGED converted
        ELSE /\ UNCHANGED samples
             /\ IF program = "cyl_converter" THEN Finish(None)
                ELSE cpc' = "retry" /\ UNCHANGED converted
    /\ UNCHANGED <<program, label, img, params, dtype, output>>
    /\ UNCHANGED <<parser_vars, calc_vars, finder_vars, dem_vars>>

ConvRetry ==
    /\ cpc = "retry"
    /\ \E fails \in BOOLEAN :
        IF ~fails
        THEN /\ samples' = Decode(img, AltDtype(program))
             /\ dtype' = AltDtype(program)
             /\ cpc' = "size"
             /\ UNCHANGED converted
        ELSE /\ UNCHANGED <<samples, dtype>>
             /\ Finish(None)
    /\ UNCHANGED <<program, label, img, params, output>>
    /\ UNCHANGED <<parser_vars, calc_vars, finder_vars, dem_vars>>

ConvSize ==
    /\ cpc = "size"
    /\ LET NROWS == Setting(program, "lines")
           NCOLS == Setting(program, "line_samples")
       IN  IF NROWS = Absent \/ NCOLS = Absent
           THEN Finish(Raised("TypeError")) /\ UNCHANGED samples
           ELSE IF Len(samples) = NCOLS * NROWS
           THEN cpc' = "write" /\ UNCHANGED <<samples, converted>>
           ELSE IF program = "cyl_main"
           THEN IF Len(samples) > NCOLS * NROWS
                THEN /\ samples' = SubSeq(samples, 1, NCOLS * NROWS)
                     /\ cpc' = "write"
                     /\ UNCHANGED converted
                ELSE Finish(None) /\ UNCHANGED samples
           ELSE IF program = "polar_converter"
           THEN Finish(Raised("NameError")) /\ UNCHANGED samples
           ELSE Finish(Raised("SystemExit")) /\ UNCHANGED samples
    /\ UNCHANGED <<program, label, img, params, dtype, output>>
    /\ UNCHANGED <<parser_vars, calc_vars, finder_vars, dem_vars>>

ConvWrite ==
    /\ cpc = "write"
    /\ LET NROWS == Setting(program, "lines")
           NCOLS == Setting(program, "line_samples")
           SCALING_FACTOR == Setting(program, "scaling_factor")
       IN  IF SCALING_FACTOR = Absent
           THEN Finish(Raised("TypeError")) /\ UNCHANGED output
           ELSE /\ output' = File([r \in 1..NROWS |-> [c \in 1..NCOLS |->
                                      samples[(r - 1) * NCOLS + c] * SCALING_FACTOR]])
                /\ Finish([kind |-> "dict", params |-> params])
    /\ UNCHANGED <<program, label, img, params, dtype, samples>>
    /\ UNCHANGED <<parser_vars, calc_vars, finder_vars, dem_vars>>

\* the labels and the images

FullLabels ==
    {[k \in {"LINES", "LINE_SAMPLES", "SCALING_FACTOR", "OFFSET", "SAMPLE_BITS", "SAMPLE_TYPE"} |->
        CASE k = "LINES" -> 1
          [] k = "LINE_SAMPLES" -> 2
          [] k = "SCALING_FACTOR" -> 10
          [] k = "OFFSET" -> 1737400
          [] k = "SAMPLE_BITS" -> bits
          [] k = "SAMPLE_TYPE" -> type] :
        bits \in {16, 32}, type \in {"LSB_INTEGER", "MSB_INTEGER"}}

Labels ==
    FullLabels \cup UNION {{Without(lbl, k) : k \in DOMAIN lbl} : lbl \in FullLabels}

Images == {<<1, 0, 0, 2>>, <<255, 255, 0, 2>>, <<1, 0, 0, 2, 0, 3, 4, 0>>}

ConvInit ==
    /\ ParserDone
    /\ NoCalculator
    /\ NoFinder
    /\ NoDem
    /\ program \in Programs
    /\ label \in Labels
    /\ img \in Images
    /\ cpc = "parse"
    /\ params = <<>>
    /\ dtype = ""
    /\ samples = <<>>
    /\ output = None
    /\ converted = Pending

ConvNext ==
    \/ ConvParse
    \/ ConvDtype
    \/ ConvRead
    \/ ConvRetry
    \/ ConvSize
    \/ ConvWrite

ConvSpec == ConvInit /\ [][ConvNext]_vars

\* ------------------------------------------------------------------------
\* CylindricalLunarDEMCorrected
\* Latitudes and longitudes are in tenths of a degree. The pixel positions
\* are the exact quotients: lat_ratio * (LINES - 1) is kept as the numerator
\* (90 - lat) * (LINES - 1) over 180 degrees, and likewise for longitudes.
\* ------------------------------------------------------------------------

OutOfRange_AboveOnly(lat) == lat > 900

\* lat < -90 or lat > 90
OutOfRange(lat) == lat < -900 \/ lat > 900

\* int(np.clip(num / den, 0, hi)) for den > 0
ClipInt(num, den, hi) ==
    IF num < 0 THEN 0 ELSE IF num > hi * den THEN hi ELSE num \div den

PixelPair(x, y) == [kind |-> "tuple", x |-> x, y |-> y]

coordinates_to_pixel_simple(lat, lon) ==
    IF OutOfRange(lat) THEN NonePair
    ELSE LET lon_norm == lon % 3600
         IN  PixelPair(ClipInt(lon_norm * (LINE_SAMPLES - 1), 3600, LINE_SAMPLES - 1),
                       ClipInt((900 - lat) * (LINES - 1), 1800, LINES - 1))

coordinates_to_pixel_with_center(lat, lon) ==
    IF OutOfRange(lat) THEN NonePair
    ELSE LET lon_norm == lon % 3600
             lon_shifted == (lon_norm + 1800) % 3600
         IN  PixelPair(ClipInt(lon_shifted * (LINE_SAMPLES - 1), 3600, LINE_SAMPLES - 1),
                       ClipInt((900 - lat) * (LINES - 1), 1800, LINES - 1))

get_elevation(x, y) ==
    IF x < 0 \/ x >= LINE_SAMPLES \/ y < 0 \/ y >= LINES THEN None
    ELSE Float(elevation_data[y + 1][x + 1])

pixel_methods == {"coordinates_to_pixel_simple", "coordinates_to_pixel_with_center"}

\* the raster shapes (LINES, LINE_SAMPLES) and the coordinates
Shapes == {<<1, 2>>, <<2, 4>>, <<3, 5>>, <<4, 8>>, <<5, 3>>}

Coordinates ==
    [lat : {-910, -900, -450, 0, 333, 900, 901},
     lon : {-3601, -1800, -1, 0, 1, 900, 1799, 1800, 1801, 3599, 3600, 5400}]

\* CylindricalLunarDEMCorrected(data_file, params_file) with a data file of
\* LINES * LINE_SAMPLES values, then one pair of coordinates
DemInit ==
    /\ ParserDone
    /\ NoCalculator
    /\ NoFinder
    /\ NoConverter
    /\ \E shape \in Shapes :
          /\ LINES = shape[1]
          /\ LINE_SAMPLES = shape[2]
          /\ elevation_data = [r \in 1..shape[1] |-> [c \in 1..shape[2] |-> 100 * r + c]]
    /\ coords \in Coordinates
    /\ pixels = [m \in pixel_methods |-> Pending]
    /\ elevations = [m \in pixel_methods |-> Pending]

DemFrame ==
    /\ UNCHANGED <<LINES, LINE_SAMPLES, elevation_data, coords>>
    /\ UNCHANGED <<parser_vars, calc_vars, finder_vars, converter_vars>>

CoordinatesToPixelSimple ==
    /\ pixels["coordinates_to_pixel_simple"] = Pending
    /\ pixels' = [pixels EXCEPT !["coordinates_to_pixel_simple"] =
                      coordinates_to_pixel_simple(coords.lat, coords.lon)]
    /\ UNCHANGED elevations
    /\ DemFrame

CoordinatesToPixelWithCenter ==
    /\ pixels["coordinates_to_pixel_with_center"] = Pending
    /\ pixels' = [pixels EXCEPT !["coordinates_to_pixel_with_center"] =
                      coordinates_to_pixel_with_center(coords.lat, coords.lon)]
    /\ UNCHANGED elevations
    /\ DemFrame

\* get_elevation(x, y) on a pixel one of the conversion methods returned
GetElevation ==
    /\ \E m \in pixel_methods :
          /\ pixels[m] \notin {Pending, NonePair}
          /\ elevations[m] = Pending
          /\ elevations' = [elevations EXCEPT ![m] = get_elevation(pixels[m].x, pixels[m].y)]
    /\ UNCHANGED pixels
    /\ DemFrame

DemNext ==
    \/ CoordinatesToPixelSimple
    \/ CoordinatesToPixelWithCenter
    \/ GetElevation

DemSpec == DemInit /\ [][DemNext]_vars

\* ------------------------------------------------------------------------
\* Properties
\* ------------------------------------------------------------------------

\* index of the first END OF HEADER line, -1 if the file has none
EohIdx ==
    LET cand == {n \in 0..(Len(lines) - 1) : Contains(At(n), "END OF HEADER")}
    IN  IF cand = {} THEN -1 ELSE CHOOSE n \in cand : \A m \in cand : n <= m

\* the lines of the header block
HeaderBlock == 0..((IF EohIdx >= 0 THEN EohIdx ELSE Len(lines)) - 1)

\* line n is a parseable axis line: the keyword, three numbers, a step that
\* np.arange accepts
AxisLine(n, kw) ==
    /\ At(n).label = kw
    /\ Len(Split(At(n).text)) >= 3
    /\ \A k \in 1..3 : ParseFloat(Split(At(n).text)[k]).ok
    /\ ParseFloat(Split(At(n).text)[3]).val # 0

NoAxisInHeader ==
    \/ ~\E n \in HeaderBlock : AxisLine(n, "LAT1 / LAT2 / DLAT")
    \/ ~\E n \in HeaderBlock : AxisLine(n, "LON1 / LON2 / DLON")

\* C1: when the header block has no parseable LAT1 / LAT2 / DLAT line or no
\* parseable LON1 / LON2 / DLON line, parse_ionex_file returns None, no map
\* is extracted and the scan of the data lines never starts
C1_HeaderIncompleteReturnsNone ==
    NoAxisInHeader =>
        /\ pc \in {"header", "check", "done"}
        /\ data = <<>> /\ i = 0 /\ x_i = 0
        /\ (pc = "done" => result = None)

\* a file without a parseable longitude line has been rejected
C1_Witness ==
    /\ pc = "done" /\ result = None
    /\ \E n \in HeaderBlock : AxisLine(n, "LAT1 / LAT2 / DLAT")
    /\ ~\E n \in HeaderBlock : AxisLine(n, "LON1 / LON2 / DLON")
    /\ \E n \in 0..(Len(lines) - 1) : Contains(At(n), "START OF TEC MAP")

\* index of the first END OF TEC MAP line at or after line n, the number of
\* lines if there is none
EndOfMap(n) ==
    LET cand == {m \in n..(Len(lines) - 1) : Contains(At(m), "END OF TEC MAP")}
    IN  IF cand = {} THEN Len(lines) ELSE CHOOSE m \in cand : \A q \in cand : m <= q

\* the values after latitude line n
RowValues(n) == CollectRow(n, 1, <<>>)

\* row r of map g was read from the data lines after a latitude line
RowRead(g, r) ==
    /\ g.src[r].line >= 0
    /\ g.tec[r] = SubSeq(RowValues(g.src[r].line), 1, Len(g.tec[r]))

\* C2: every cell of every extracted grid holds a value read from the data
\* lines of the file; none holds a fill-in zero or a generated value
C2_NoZeroOrSyntheticFill ==
    \A k \in 1..Len(data) : \A r \in 1..Len(data[k].tec) : RowRead(data[k], r)

\* C3: every row stored in a map's grid was read from lines before that
\* map's own END OF TEC MAP line
C3_RowsWithinOwnMap ==
    \A k \in 1..Len(data) : \A r \in 1..Len(data[k].src) :
        data[k].src[r].line >= 0 => data[k].src[r].line < EndOfMap(data[k].start)

\* the line at which the scan of the lines after latitude line k stops
RECURSIVE RowEnd(_, _)
RowEnd(k, offset) ==
    IF offset > MaxOffset \/ k + offset >= Len(lines) THEN k + offset
    ELSE IF ~NonBlank(At(k + offset))
            \/ Contains(At(k + offset), "LAT/LON1/LON2/DLON/H")
            \/ Contains(At(k + offset), "END OF TEC MAP") THEN k + offset
    ELSE RowEnd(k, offset + 1)

\* the scan of the lines after latitude line n stopped at a structural marker
\* with fewer values than there are longitudes
ShortRow(n) ==
    /\ IsLatLine(n) /\ Len(RowValues(n)) < NLon
    /\ RowEnd(n, 1) < Len(lines) /\ NonBlank(At(RowEnd(n, 1)))

\* a latitude line of the block of map g is a short row
ShortRowIn(g) == \E n \in g.start..(EndOfMap(g.start) - 1) : ShortRow(n)

\* C4: in a map with a latitude row that collected too few values, every
\* stored row sits at the row index of its own latitude
C4_RowsAtOwnLatitude ==
    \A k \in 1..Len(data) :
        ShortRowIn(data[k]) =>
            \A r \in 1..Len(data[k].src) :
                data[k].src[r].line >= 0 =>
                    data[k].src[r].lat = header_info["latitudes"][r]

\* the first number of a line as a fixed-format scanner reads it: it ends at
\* a blank or at a sign that follows it without a blank
RECURSIVE LeadEnd(_, _)
LeadEnd(t, k) ==
    IF k > Len(t) \/ t[k] \in {" ", "-", "+"} THEN k - 1 ELSE LeadEnd(t, k + 1)

LeadToken(line) ==
    LET t == LStrip(line.text)
    IN  IF t = <<>> THEN <<>> ELSE SubSeq(t, 1, LeadEnd(t, 2))

\* line n is the latitude line of latitude v
LatLineOf(n, v) ==
    /\ At(n).label = "LAT/LON1/LON2/DLON/H"
    /\ ParseFloat(LeadToken(At(n))).ok
    /\ ParseFloat(LeadToken(At(n))).val = v

\* line n holds numbers only
DataLine(n) ==
    /\ n < Len(lines)
    /\ At(n).label = "" /\ Split(At(n).text) # <<>>
    /\ \A k \in 1..Len(Split(At(n).text)) : ParseFloat(Split(At(n).text)[k]).ok

\* the values of the data lines from line n on
RECURSIVE RunValues(_)
RunValues(n) ==
    IF DataLine(n)
    THEN [k \in 1..Len(Split(At(n).text)) |-> ParseFloat(Split(At(n).text)[k]).val]
         \o RunValues(n + 1)
    ELSE <<>>

RECURSIVE RunEnd(_)
RunEnd(n) == IF DataLine(n) THEN RunEnd(n + 1) ELSE n

NoMatch == [ok |-> FALSE, grids |-> <<>>, next |-> 0]

\* complete rows for the latitudes r.. of the header, from line n on
RECURSIVE MatchRows(_, _)
MatchRows(n, r) ==
    IF r > NLat THEN [ok |-> TRUE, grids |-> <<>>, next |-> n]
    ELSE IF n < Len(lines) /\ LatLineOf(n, header_info["latitudes"][r])
            /\ Len(RunValues(n + 1)) = NLon
    THEN LET rest == MatchRows(RunEnd(n + 1), r + 1)
         IN  IF rest.ok
             THEN [ok |-> TRUE, grids |-> <<RunValues(n + 1)>> \o rest.grids, next |-> rest.next]
             ELSE NoMatch
    ELSE NoMatch

\* well-formed TEC map blocks from line n to the end of the file
RECURSIVE MatchBlocks(_)
MatchBlocks(n) ==
    IF n >= Len(lines) THEN [ok |-> TRUE, grids |-> <<>>, next |-> n]
    ELSE IF n + 1 < Len(lines)
            /\ At(n).label = "START OF TEC MAP"
            /\ At(n + 1).label = "EPOCH OF CURRENT MAP" /\ ParseEpoch(At(n + 1)).ok
    THEN LET rows == MatchRows(n + 2, 1)
         IN  IF rows.ok /\ rows.next < Len(lines) /\ At(rows.next).label = "END OF TEC MAP"
             THEN LET rest == MatchBlocks(rows.next + 1)
                  IN  IF rest.ok
                      THEN [ok |-> TRUE, grids |-> <<rows.grids>> \o rest.grids, next |-> rest.next]
                      ELSE NoMatch
             ELSE NoMatch
    ELSE NoMatch

\* the header is complete and ends with END OF HEADER, and the rest of the
\* file is one or more well-formed TEC map blocks
WellFormed ==
    /\ EohIdx >= 0
    /\ ~HeaderIncomplete(header_info)
    /\ MatchBlocks(EohIdx + 1).ok
    /\ MatchBlocks(EohIdx + 1).grids # <<>>

\* C5: a file of k well-formed TEC map blocks returns exactly k grids, the
\* grid of each block holding the values of the block
C5_WellFormedBlocksReturned ==
    (pc = "done" /\ WellFormed) =>
        /\ result # None
        /\ [k \in 1..Len(result.data) |-> result.data[k].tec] = MatchBlocks(EohIdx + 1).grids

\* C6: every grid has as many rows as the header has latitudes and every
\* row as many values as the header has longitudes
C6_GridShape ==
    /\ \A k \in 1..Len(data) :
          /\ Len(data[k].tec) = Len(header_info["latitudes"])
          /\ \A r \in 1..Len(data[k].tec) :
                Len(data[k].tec[r]) = Len(header_info["longitudes"])
    /\ (pc = "done" /\ result # None) =>
          \A k \in 1..Len(result.data) :
              /\ Len(result.data[k].tec) = Len(result.lats)
              /\ \A r \in 1..Len(result.data[k].tec) :
                    Len(result.data[k].tec[r]) = Len(result.lons)

\* a returned grid has a row that was cut from a longer list of values, and
\* the two axes differ in length
C6_Witness ==
    /\ pc = "done" /\ result # None
    /\ Len(result.lats) # Len(result.lons)
    /\ \E k \in 1..Len(result.data) : \E r \in 1..Len(result.data[k].src) :
          /\ result.data[k].src[r].line >= 0
          /\ Len(RowValues(result.data[k].src[r].line)) > Len(result.lons)

\* line n starts with a latitude of the header glued to a negative longitude
GluedLatLine(n) ==
    LET t == LStrip(At(n).text)
        lead == LeadToken(At(n))
    IN  /\ At(n).label = "LAT/LON1/LON2/DLON/H"
        /\ Len(lead) < Len(t) /\ t[Len(lead) + 1] = "-"
        /\ ParseFloat(lead).ok /\ InLats(ParseFloat(lead).val)

\* C7: a latitude line whose latitude is glued to the negative longitude
\* that follows starts a row, and the data lines after it fill the row
C7_GluedLatitudeLineStartsRow ==
    [][(/\ pc = "extract" /\ x_i < Len(lines) /\ lat_idx < NLat
        /\ GluedLatLine(x_i)
        /\ Len(RowValues(x_i)) >= NLon)
       => (/\ lat_idx' = lat_idx + 1
           /\ tec_matrix'[lat_idx + 1] = SubSeq(RowValues(x_i), 1, NLon))]_vars

\* first line of the data section
DataStart == IF EohIdx >= 0 THEN EohIdx + 1 ELSE 1

\* line s starts a map block with a valid epoch line
BlockAt(s) ==
    /\ s >= DataStart /\ s + 1 < Len(lines)
    /\ At(s).label = "START OF TEC MAP"
    /\ At(s + 1).label = "EPOCH OF CURRENT MAP" /\ ParseEpoch(At(s + 1)).ok

\* the map block at line s is in the result
Returned(s) ==
    /\ result # None
    /\ \E k \in 1..Len(result.data) :
          /\ result.data[k].start = s + 2
          /\ result.data[k].epoch = ParseEpoch(At(s + 1)).val

\* a row of the data section that does not yield a complete row: too few
\* values, or a token that is not a number
MalformedRow(n) ==
    /\ n >= DataStart /\ IsLatLine(n)
    /\ \/ Len(RowValues(n)) < NLon
       \/ \E m \in (n + 1)..(RowEnd(n, 1) - 1) : ~LineFloats(At(m)).ok

\* C8: once the header is accepted, every map block with a valid epoch line
\* is returned, whatever the rows of the maps before it
C8_LaterMapsReturned ==
    (pc = "done" /\ ~HeaderIncomplete(header_info)) =>
        \A s \in 0..(Len(lines) - 1) : BlockAt(s) => Returned(s)

\* a map block after a malformed row of an earlier map has been returned
C8_Witness ==
    /\ pc = "done" /\ ~HeaderIncomplete(header_info)
    /\ \E s1, s2 \in 0..(Len(lines) - 1) : \E n \in 0..(Len(lines) - 1) :
          /\ s1 < n /\ n < s2
          /\ BlockAt(s1) /\ BlockAt(s2) /\ MalformedRow(n)
          /\ Returned(s2)

\* C9: an accepted header has at least one latitude and one longitude
C9_AcceptedHeaderHasNonEmptyAxes ==
    (pc \in {"data", "extract", "done"} /\ ~HeaderIncomplete(header_info)) =>
        /\ Len(header_info["latitudes"]) >= 1
        /\ Len(header_info["longitudes"]) >= 1

\* the header made of lines k .. n - 1
RECURSIVE FoldHeader(_, _, _)
FoldHeader(k, n, h) ==
    IF k >= n THEN h ELSE FoldHeader(k + 1, n, HeaderBranch(h, At(k)))

HeaderKeywords ==
    {"EPOCH OF FIRST MAP", "EPOCH OF LAST MAP", "INTERVAL", "LAT1 / LAT2 / DLAT",
     "LON1 / LON2 / DLON", "HGT1 / HGT2 / DHGT", "# OF MAPS IN FILE"}

\* C10: in a file with an END OF HEADER line, the header is the header of
\* the lines before the first such line, whatever follows it, and the scan
\* for TEC maps starts at the line after it
C10_HeaderStopsAtEndOfHeader ==
    /\ []((EohIdx >= 0 /\ pc # "header") =>
            header_info = SetKey(FoldHeader(0, EohIdx, <<>>), "header_end", EohIdx))
    /\ [][(EohIdx >= 0 /\ pc = "check" /\ pc' = "data") => i' = EohIdx + 1]_vars

\* a file with a header keyword line after END OF HEADER has been parsed
C10_Witness ==
    /\ pc = "done" /\ result # None /\ EohIdx >= 0
    /\ \E n \in (EohIdx + 1)..(Len(lines) - 1) :
          /\ At(n).label \in HeaderKeywords
          /\ HeaderBranch(header_info, At(n)) # header_info

\* epoch a is not later than epoch b (year, month, day, hour, minute, second)
RECURSIVE EpochLeq(_, _)
EpochLeq(a, b) ==
    IF a = <<>> THEN TRUE
    ELSE IF Head(a) # Head(b) THEN Head(a) < Head(b)
    ELSE EpochLeq(Tail(a), Tail(b))

\* C11: the grids are in time order: the epoch of each grid is not later
\* than the epoch of the grid after it
C11_GridsTimeOrdered ==
    \A k \in 1..(Len(data) - 1) : EpochLeq(data[k].epoch, data[k + 1].epoch)

\* ------------------------------------------------------------------------
\* Properties of the calculator
\* ------------------------------------------------------------------------

HasReturned(m) == rets[m] # Pending

InvalidElevation(e) == e = NaN \/ e <= 0 \/ e >= 900

ReportsFailure(v) == v.kind \in {"None", "raise"}

\* C12: calculate_delay and calculate_mapping_function report a failure,
\* and return no number, when the elevation is <= 0, >= 90 or NaN, and
\* calculate_delay also when the frequency is not positive
C12_InvalidGeometryRejected ==
    /\ HasReturned("calculate_mapping_function") /\ InvalidElevation(call.elevation)
         => ReportsFailure(rets["calculate_mapping_function"])
    /\ HasReturned("calculate_delay")
         /\ (InvalidElevation(call.elevation) \/ call.frequency <= 0)
         => ReportsFailure(rets["calculate_delay"])

\* the point of the call lies outside the latitude or longitude axis
OutsideGrid == ~InAxis(tec_data.lats, call.lat) \/ ~InAxis(tec_data.lons, call.lon)

\* index k (0-based) is the node of ax nearest to x
Nearest(ax, k, x) ==
    /\ k \in 0..(Len(ax) - 1)
    /\ \A m \in 1..Len(ax) : Abs(ax[k + 1] - x) <= Abs(ax[m] - x)

\* index k (0-based) is an end of ax when x is outside of it
OnEdge(ax, k, x) == InAxis(ax, x) \/ k \in {0, Len(ax) - 1}

\* C13: for a point outside the grid calculate_delay returns a result whose
\* VTEC is the value of the grid node nearest to the point, a node of the
\* edge with row in [0, n_lat-1] and column in [0, n_lon-1]
C13_OutsideGridSamplesNearestEdge ==
    HasReturned("calculate_delay") /\ OutsideGrid /\ call.frequency # 0
    => LET r == rets["calculate_delay"]
       IN  /\ r.kind = "dict"
           /\ r.node # <<>>
           /\ Nearest(tec_data.lats, r.node[1], call.lat)
           /\ Nearest(tec_data.lons, r.node[2], call.lon)
           /\ OnEdge(tec_data.lats, r.node[1], call.lat)
           /\ OnEdge(tec_data.lons, r.node[2], call.lon)
           /\ r.vtec = 1000 * tec_data.data[r.grid].tec[r.node[1] + 1][r.node[2] + 1]

C13_Witness ==
    /\ HasReturned("calculate_delay")
    /\ call.lat = 900 /\ call.lon = 0 /\ call.time_index = 1
    /\ Len(tec_data.data) = 2
    /\ rets["calculate_delay"].kind = "dict"
    /\ rets["calculate_delay"].node = <<0, 2>>
    /\ rets["calculate_delay"].vtec = 7000

\* what method m returns for the arguments of call on the calculator as it is
Alone(m) ==
    CASE m = "calculate_mapping_function" ->
           Float(calculate_mapping_function(call.elevation))
      [] m = "calculate_pierce_point" ->
           [kind |-> "tuple",
            v |-> calculate_pierce_point(call.lat, call.lon, call.elevation, call.azimuth)]
      [] m = "calculate_delay" ->
           calculate_delay(call.lat, call.lon, call.elevation, call.frequency, call.time_index)
      [] m = "calculate_delay_for_satellite" ->
           calculate_delay_for_satellite(call.lat, call.lon, call.elevation, call.azimuth,
                                         call.frequency, call.time_index)

\* C18: no method changes the grids, the axes, the shell height, the Earth
\* radius or the interpolator list, and whatever methods ran before it, each
\* method has returned what it returns on the calculator as constructed
C18_MethodsLeaveCalculatorUnchanged ==
    /\ [][UNCHANGED <<tec_data, Re, height, interpolators>>]_vars
    /\ [](\A m \in DOMAIN rets : HasReturned(m) => rets[m] = Alone(m))

C18_Witness ==
    /\ \A m \in Methods : HasReturned(m)
    /\ call.time_index = 1
    /\ rets["calculate_delay"].kind = "dict"
    /\ rets["calculate_delay"].grid = 2
    /\ rets["calculate_delay_for_satellite"].kind = "dict"

\* the value calculate_delay samples from grid g (1-based) at the point of call
SampledFrom(g) ==
    LET v == Interpolate(g, call.lat, call.lon)
    IN  IF v # NaN THEN v
        ELSE 1000 * tec_data.data[g].tec[ArgMin(tec_data.lats, call.lat) + 1]
                                        [ArgMin(tec_data.lons, call.lon) + 1]

\* C19: a successful calculate_delay result has stec = vtec * mapping_function,
\* delay_m = 40.31e16 * stec / frequency^2, delay_ns = delay_m * 1e9 / 299792458,
\* vtec sampled from the grid time_index selects (grid 0 for an index past the
\* end), and at elevation 90 mapping_function = 1 and stec = vtec
C19_DelayFormula ==
    HasReturned("calculate_delay") /\ rets["calculate_delay"].kind = "dict"
        /\ call.elevation # NaN /\ call.time_index >= 0
    => LET r == rets["calculate_delay"]
           f == call.frequency
           g == IF call.time_index < Len(tec_data.data) THEN call.time_index + 1 ELSE 1
       IN  /\ r.vtec = SampledFrom(g)
           /\ r.stec = (r.vtec * r.mapping_function) \div 1000
           /\ r.delay_m = (4031 * r.stec) \div (f * f)
           /\ r.delay_ns = (r.delay_m * 100000) \div 29979
           /\ call.elevation = 900 => r.mapping_function = 1000 /\ r.stec = r.vtec

C19_Witness ==
    /\ HasReturned("calculate_delay")
    /\ call.elevation = 300 /\ call.frequency = 160 /\ call.time_index = 1
    /\ call.lat = 850 /\ call.lon = -1775
    /\ Len(tec_data.data) = 2
    /\ rets["calculate_delay"].kind = "dict"
    /\ rets["calculate_delay"].vtec = 10000
    /\ rets["calculate_delay"].stec > 10000
    /\ rets["calculate_delay"].delay_m > 0

\* elevations from 5 to 90 degrees in steps of 5
ElevationSteps == {50 * k : k \in 1..18}

\* C20: calculate_mapping_function returns exactly 1.0 at elevation 90, and
\* for elevations between 5 and 90 a lower elevation has a larger value
C20_MappingFunctionMonotonic ==
    HasReturned("calculate_mapping_function") /\ call.elevation \in ElevationSteps
    => LET m == rets["calculate_mapping_function"].v
       IN  /\ call.elevation = 900 => m = 1000
           /\ \A e \in ElevationSteps :
                /\ e < call.elevation => calculate_mapping_function(e) > m
                /\ e > call.elevation => calculate_mapping_function(e) < m

C20_Witness ==
    /\ HasReturned("calculate_mapping_function")
    /\ call.elevation = 50
    /\ rets["calculate_mapping_function"].v > 2000

\* ------------------------------------------------------------------------
\* Properties of the height finder
\* ------------------------------------------------------------------------

\* the queried latitude is outside [minimum_latitude, maximum_latitude]
OutOfCoverage ==
    \/ query.lat < (IF "minimum_latitude" \in DOMAIN metadata
                    THEN metadata["minimum_latitude"] ELSE 450)
    \/ query.lat > (IF "maximum_latitude" \in DOMAIN metadata
                    THEN metadata["maximum_latitude"] ELSE 900)

NoValue(v) == v = NonePair \/ v.kind = "None"

\* C14: for a latitude outside [minimum_latitude, maximum_latitude] each of
\* latlon_to_pixel, get_height_at_latlon and get_height_interpolated returns
\* no value, and no pixel of the raster is read
C14_OutOfCoverageRejected ==
    OutOfCoverage
    => /\ \A m \in DOMAIN heights : heights[m] # Pending => NoValue(heights[m])
       /\ reads = {}

C14_Witness ==
    /\ query.lat = 910
    /\ \A param \in required_params : param \in DOMAIN metadata
    /\ \A m \in finder_methods : heights[m] # Pending /\ NoValue(heights[m])
    /\ reads = {}

\* the pixel position of the query, when get_height_interpolated sampled it
Sampled == heights["get_height_interpolated"].kind = "float"

Position == latlon_to_pixel(query.lat, query.lon)

AtNode == Position.px % 16 = 0 /\ Position.py % 16 = 0

\* the four neighbouring pixels of the position hold the same value
Flat ==
    \A y \in {Clamp(Floor(Position.py), nrows), Clamp(Ceil(Position.py), nrows)},
       x \in {Clamp(Floor(Position.px), ncols), Clamp(Ceil(Position.px), ncols)} :
        Pixel(y, x) = Pixel(Clamp(Floor(Position.py), nrows), Clamp(Floor(Position.px), ncols))

FlatValue == Pixel(Clamp(Floor(Position.py), nrows), Clamp(Floor(Position.px), ncols))

\* C15 as claimed: at integer pixel coordinates get_height_interpolated
\* returns exactly the pixel, and wherever the four neighbours hold the same
\* value v it returns v
C15_ExactAtNodesAndOnFlats ==
    Sampled
    => /\ AtNode => heights["get_height_interpolated"].v
                      = 256 * Pixel(Position.py \div 16, Position.px \div 16)
       /\ Flat => heights["get_height_interpolated"].v = 256 * FlatValue

\* both weights are 0 or 1/2
AtMidpoint == Position.px % 8 = 0 /\ Position.py % 8 = 0

\* C15 amended: at integer pixel coordinates get_height_interpolated returns
\* exactly the pixel; where the four neighbours hold the same value v it
\* returns v exactly at nodes and midpoints, and elsewhere v up to the rounding
\* of the seven floating-point operations of the weighted sum
C15_ExactAtNodesRoundedOnFlats ==
    Sampled
    => LET ht == heights["get_height_interpolated"].v
       IN  /\ AtNode => ht = 256 * Pixel(Position.py \div 16, Position.px \div 16)
           /\ Flat /\ AtMidpoint => ht = 256 * FlatValue
           /\ Flat => Abs(ht - 256 * FlatValue) * Pow2(MantissaBits - 2)
                        <= Abs(256 * FlatValue)

C15_Witness ==
    /\ Sampled
    /\ Flat
    /\ ~AtMidpoint
    /\ raster = RasterA
    /\ heights["get_height_interpolated"].v # 256 * FlatValue

\* ------------------------------------------------------------------------
\* Properties of the converters
\* ------------------------------------------------------------------------

\* the raw samples have been decoded
Decoded == samples # <<>>

\* the byte order SAMPLE_TYPE declares
DeclaredLittleEndian == label["SAMPLE_TYPE"] = "LSB_INTEGER"

\* C16: the samples are decoded in the byte order the label declares in
\* SAMPLE_TYPE, for 16-bit and 32-bit samples, and are not decoded at all
\* when the label declares none
C16_ByteOrderFromLabel ==
    Decoded
    => /\ "SAMPLE_TYPE" \in DOMAIN label
       /\ LittleEndian(dtype) <=> DeclaredLittleEndian

RequiredRasterFields == {"LINES", "LINE_SAMPLES", "SCALING_FACTOR", "OFFSET", "SAMPLE_BITS"}

ConversionFailed == converted = None \/ converted.kind = "raise"

\* C17: when the label lacks LINES, LINE_SAMPLES, SCALING_FACTOR, OFFSET or
\* SAMPLE_BITS no output file is written and the conversion ends in a failure
C17_MissingRasterFieldIsFatal ==
    (\E k \in RequiredRasterFields : k \notin DOMAIN label)
    => /\ output = None
       /\ cpc = "done" => ConversionFailed

\* ------------------------------------------------------------------------
\* Properties of the parser on long, partly unreadable and off-grid input
\* ------------------------------------------------------------------------

\* the numbers among the tokens of a line, in order
RECURSIVE NumericTokens(_)
NumericTokens(parts) ==
    IF parts = <<>> THEN <<>>
    ELSE (IF ParseFloat(Head(parts)).ok THEN <<ParseFloat(Head(parts)).val>> ELSE <<>>)
         \o NumericTokens(Tail(parts))

\* the numbers of the data lines after latitude line k, up to the line at
\* which the scan stops, tokens that are not numbers left out
RECURSIVE NumericRun(_, _)
NumericRun(k, offset) ==
    IF k + offset >= RowEnd(k, 1) THEN <<>>
    ELSE (IF At(k + offset).label = "" THEN NumericTokens(Tokens(At(k + offset))) ELSE <<>>)
         \o NumericRun(k, offset + 1)

\* the while loop of _extract_tec_data is at latitude line x_i
AtLatLine ==
    /\ pc = "extract" /\ x_i < Len(lines) /\ lat_idx < NLat
    /\ IsLatLine(x_i)

\* C22: a token that is not a number is skipped alone: the numbers of the
\* data lines after a latitude line, in order and without the tokens that
\* are not numbers, fill the row of that latitude line
C22_OnlyBadTokenSkipped ==
    [][(AtLatLine /\ Len(NumericRun(x_i, 1)) >= NLon)
       => (/\ lat_idx' = lat_idx + 1
           /\ tec_matrix'[lat_idx + 1] = SubSeq(NumericRun(x_i, 1), 1, NLon))]_vars

\* round(a / b) of Python for b # 0: to the nearest integer, ties to even
RoundDiv(a, b) ==
    LET n == IF b < 0 THEN -a ELSE a
        d == IF b < 0 THEN -b ELSE b
        f == n \div d
        rem == n - d * f
    IN  IF 2 * rem < d THEN f
        ELSE IF 2 * rem > d THEN f + 1
        ELSE IF f % 2 = 0 THEN f ELSE f + 1

\* the axis was generated from a non-zero step whose sign is that of
\* end - start
AxisGenerated(kstart, kend, kstep, kaxis) ==
    /\ Has(header_info, kaxis) /\ Has(header_info, kstep)
    /\ \/ header_info[kstep] > 0 /\ header_info[kend] > header_info[kstart]
       \/ header_info[kstep] < 0 /\ header_info[kend] < header_info[kstart]

AxisCount(kstart, kend, kstep) ==
    RoundDiv(header_info[kend] - header_info[kstart], header_info[kstep]) + 1

\* C23: the number of latitudes and of longitudes generated from a header
\* line is round((end - start) / step) + 1
C23_AxisLengthIsRoundedQuotient ==
    /\ AxisGenerated("lat_start", "lat_end", "lat_step", "latitudes") =>
          Len(header_info["latitudes"]) = AxisCount("lat_start", "lat_end", "lat_step")
    /\ AxisGenerated("lon_start", "lon_end", "lon_step", "longitudes") =>
          Len(header_info["longitudes"]) = AxisCount("lon_start", "lon_end", "lon_step")

\* C25: the index advance after a latitude line passes no other latitude
\* line: the scan resumes at or before the next one
C25_NoLatitudeLineSkipped ==
    [][AtLatLine =>
          \A m \in (x_i + 1)..(x_i' - 1) :
              m < Len(lines) => ~Contains(At(m), "LAT/LON1/LON2/DLON/H")]_vars

\* C26: the loops of _parse_data and _extract_tec_data move their line index
\* forward on every iteration, no epoch line yields two grids, and the
\* parser returns
C26_ParserTerminates ==
    /\ [][(pc = "data" /\ pc' = "data") => i' > i]_vars
    /\ [][(pc = "extract" /\ pc' = "data") => i' > i]_vars
    /\ [][(pc = "extract" /\ pc' = "extract") => x_i' > x_i]_vars
    /\ [](\A a, b \in 1..Len(data) : a # b => data[a].start # data[b].start)
    /\ <>(pc = "done")

\* a file with two START OF TEC MAP lines before one epoch line, and a
\* second map after it, has been parsed to its end
C26_Witness ==
    /\ pc = "done" /\ result # None /\ Len(data) >= 2
    /\ \E n \in 0..(Len(lines) - 3) :
          /\ At(n).label = "START OF TEC MAP"
          /\ At(n + 1).label = "START OF TEC MAP"
          /\ At(n + 2).label = "EPOCH OF CURRENT MAP"

\* ------------------------------------------------------------------------
\* Properties of the nearest-pixel lookup
\* ------------------------------------------------------------------------

\* get_height_at_latlon has returned or raised for a query that passes the
\* latitude check
LookedUp ==
    /\ heights["get_height_at_latlon"] # Pending
    /\ latlon_to_pixel(query.lat, query.lon) # NonePair

\* C24: for a query that passes the latitude check, get_height_at_latlon
\* returns no value or the value of a pixel inside the raster, and never
\* raises an index error
C24_NearestPixelInsideRaster ==
    LookedUp =>
        LET ret == heights["get_height_at_latlon"]
        IN  \/ ret = NoHeight
            \/ /\ ret.kind = "float"
               /\ \E y \in 0..(nrows - 1) : \E x \in 0..(ncols - 1) :
                     /\ ret.cells = {<<y, x>>}
                     /\ ret.v = Pixel(y, x)

\* ------------------------------------------------------------------------
\* Properties of the size check of the converters
\* ------------------------------------------------------------------------

\* a conversion by convert_ldem_to_meters_corrected or
\* convert_polar_ldem_to_meters has read its .img file, knows the raster
\* shape and has ended
SizedAndEnded ==
    /\ program \in {"cyl_main", "polar_converter"}
    /\ cpc = "done" /\ Decoded
    /\ Setting(program, "lines") # Absent
    /\ Setting(program, "line_samples") # Absent
    /\ Setting(program, "scaling_factor") # Absent

\* lines * line_samples
ExpectedSize == Setting(program, "lines") * Setting(program, "line_samples")

\* the samples the .img file holds
Held == Decode(img, dtype)

\* C27: a file with more samples than lines * line_samples is converted
\* from its first lines * line_samples samples; a file with fewer samples
\* yields no result and no output file
C27_SurplusTruncatedShortfallRejected ==
    SizedAndEnded =>
        /\ Len(Held) > ExpectedSize =>
              /\ converted # None /\ converted.kind = "dict"
              /\ samples = SubSeq(Held, 1, ExpectedSize)
              /\ output # None
        /\ Len(Held) < ExpectedSize =>
              /\ converted = None
              /\ output = None

\* ------------------------------------------------------------------------
\* Properties of the time index of calculate_delay
\* ------------------------------------------------------------------------

\* C30: the time_index of a successful calculate_delay result is an index
\* in [0, number of grids) and names the grid that was sampled
C30_ReportedIndexNamesSampledGrid ==
    (HasReturned("calculate_delay") /\ rets["calculate_delay"].kind = "dict")
    => LET r == rets["calculate_delay"]
       IN  /\ r.time_index \in 0..(Len(tec_data.data) - 1)
           /\ r.grid = r.time_index + 1

\* ------------------------------------------------------------------------
\* Properties of the cylindrical DEM
\* ------------------------------------------------------------------------

\* conversion method m has returned
Converted(m) == pixels[m] # Pending

\* C28: for a latitude in [-90, 90] and any longitude both conversion
\* methods return a pixel inside the raster, for which get_elevation
\* returns a value; for a latitude outside [-90, 90] both return no pixel
C28_PixelInsideRaster ==
    \A m \in DOMAIN pixels :
        Converted(m) =>
            IF coords.lat >= -900 /\ coords.lat <= 900
            THEN /\ pixels[m] # NonePair
                 /\ 0 <= pixels[m].x /\ pixels[m].x <= LINE_SAMPLES - 1
                 /\ 0 <= pixels[m].y /\ pixels[m].y <= LINES - 1
                 /\ elevations[m] # Pending =>
                       elevations[m] = Float(elevation_data[pixels[m].y + 1][pixels[m].x + 1])
            ELSE pixels[m] = NonePair

\* both methods have produced a pixel of the bottom row for latitude -90
\* and a longitude beyond 360, and get_elevation has returned its value
C28_Witness ==
    /\ coords.lat = -900 /\ coords.lon > 3600
    /\ \A m \in DOMAIN pixels :
          /\ Converted(m)
          /\ pixels[m].y = LINES - 1
          /\ elevations[m] # Pending /\ elevations[m].kind = "float"

\* C29: coordinates_to_pixel_with_center maps longitude 180 to the centre
\* column, (LINE_SAMPLES - 1) / 2 truncated
C29_Longitude180AtCentre ==
    (/\ Converted("coordinates_to_pixel_with_center")
     /\ coords.lat >= -900 /\ coords.lat <= 900
     /\ coords.lon = 1800)
    => /\ pixels["coordinates_to_pixel_with_center"] # NonePair
       /\ pixels["coordinates_to_pixel_with_center"].x = (LINE_SAMPLES - 1) \div 2

\* ------------------------------------------------------------------------
\* Round trip of the polar-stereographic transform: latlon_to_pixel
\* (polar/main.py), then the metres from the projection centre of
\* create_coordinate_grid, then convert_to_geographic
\* (polar/converter_to_meters.py).
\* Pixel coordinates are held in sixteenths of a pixel as doubles hold them
\* in units of the last place of the centre offset, and angles in tenths of
\* a degree; the inverse functions are the inverses of the model's tan, sin
\* and cos, so that an error of the round trip is an error of the rounding.
\* ------------------------------------------------------------------------

GridMetres_FromOrigin(index, center_px) ==
    (index * Get(metadata, "map_scale", 100)) \div 16

\* (index - center_px) * map_scale, in metres
GridMetres(index, center_px) ==
    ((index - center_px) * Get(metadata, "map_scale", 100)) \div 16

\* the element of grid_x_2d, grid_y_2d at the pixel position p
create_coordinate_grid(p) ==
    [kind |-> "tuple",
     x |-> GridMetres(p.px, Get(metadata, "sample_projection_offset", 8 * ncols)),
     y |-> GridMetres(p.py, Get(metadata, "line_projection_offset", 8 * nrows))]

\* the largest number of lo..hi whose square is at most n
RECURSIVE SqrtSearch(_, _, _)
SqrtSearch(n, lo, hi) ==
    IF lo = hi THEN lo
    ELSE LET mid == (lo + hi + 1) \div 2
         IN  IF mid * mid <= n THEN SqrtSearch(n, mid, hi)
             ELSE SqrtSearch(n, lo, mid - 1)

\* np.sqrt(x**2 + y**2) in metres, computed in hundreds of metres
Hypot(x, y) ==
    LET hx == Abs(x) \div 100
        hy == Abs(y) \div 100
    IN  100 * SqrtSearch(hx * hx + hy * hy, 0, 46340)

\* the largest angle of lo..hi whose tangent is at most t
RECURSIVE ArcTanSearch(_, _, _)
ArcTanSearch(t, lo, hi) ==
    IF lo = hi THEN lo
    ELSE LET mid == (lo + hi + 1) \div 2
         IN  IF TanMilli(mid) <= t THEN ArcTanSearch(t, mid, hi)
             ELSE ArcTanSearch(t, lo, mid - 1)

\* np.arctan of t >= 0 in thousandths: the nearest angle
ArcTan(t) ==
    LET a == ArcTanSearch(t, 0, 899)
    IN  IF a < 899 /\ TanMilli(a + 1) - t < t - TanMilli(a) THEN a + 1 ELSE a

\* the largest angle of lo..hi that is not past the direction (x, y),
\* x >= 0 and y >= 0
RECURSIVE ArcTan2Search(_, _, _, _)
ArcTan2Search(y, x, lo, hi) ==
    IF lo = hi THEN lo
    ELSE LET mid == (lo + hi + 1) \div 2
         IN  IF x * SinMilli(mid) <= y * CosMilli(mid)
             THEN ArcTan2Search(y, x, mid, hi)
             ELSE ArcTan2Search(y, x, lo, mid - 1)

\* np.arctan2(y, x) in (-180, 180] degrees; arctan2(0, 0) is 0
ArcTan2(y, x) ==
    IF x = 0 /\ y = 0 THEN 0
    ELSE LET ax == Abs(x)
             ay == Abs(y)
             lo == ArcTan2Search(ay, ax, 0, 900)
             away(a) == Abs(ax * SinMilli(a) - ay * CosMilli(a))
             a == IF lo < 900 /\ away(lo + 1) < away(lo) THEN lo + 1 ELSE lo
         IN  IF x >= 0 /\ y >= 0 THEN a
             ELSE IF x < 0 /\ y >= 0 THEN 1800 - a
             ELSE IF x < 0 THEN a - 1800
             ELSE -a

\* x % m of numpy: the remainder of the sign of x, and m added to a negative
\* one in floating point
Remainder(x, m) == IF x >= 0 THEN x % m ELSE Fl(x % m)

convert_to_geographic(grid_x, grid_y) ==
    LET R == Get(metadata, "a_axis_radius", 17374) * 100
        center_lon == Get(metadata, "center_longitude", 0)
        r == Hypot(grid_x, grid_y)
        theta == ArcTan2(grid_y, grid_x)
        chi == 2 * ArcTan((r * 1000) \div (2 * R))
    IN  [kind |-> "tuple",
         lat |-> 900 - chi,
         lon |-> Remainder(theta + center_lon, 3600)]

trip_steps == {"latlon_to_pixel", "create_coordinate_grid", "convert_to_geographic"}

TripMetadatas ==
    {SetKey(BaseMetadata(cx, cy), "center_longitude", c) :
        cx \in {24, 27}, cy \in {24, 40}, c \in {0, 300}}

TripQueries ==
    [lat : {440, 450, 453, 600, 633, 700, 800, 816, 860, 890, 899, 900},
     lon : {0, 4, 450, 456, 900, 1800, 2704, 3584}]

\* a finder on the product, then one position taken there and back
TripInit ==
    /\ ParserDone
    /\ NoCalculator
    /\ NoConverter
    /\ NoDem
    /\ metadata \in TripMetadatas
    /\ raster = RasterB
    /\ query \in TripQueries
    /\ heights = [m \in trip_steps |-> Pending]
    /\ reads = {}

CreateCoordinateGrid ==
    /\ heights["latlon_to_pixel"] # Pending
    /\ heights["latlon_to_pixel"] # NonePair
    /\ heights["create_coordinate_grid"] = Pending
    /\ heights' = [heights EXCEPT !["create_coordinate_grid"] =
                      create_coordinate_grid(heights["latlon_to_pixel"])]
    /\ UNCHANGED reads
    /\ FinderFrame

ConvertToGeographic ==
    /\ heights["create_coordinate_grid"] # Pending
    /\ heights["convert_to_geographic"] = Pending
    /\ heights' = [heights EXCEPT !["convert_to_geographic"] =
                      convert_to_geographic(heights["create_coordinate_grid"].x,
                                            heights["create_coordinate_grid"].y)]
    /\ UNCHANGED reads
    /\ FinderFrame

TripNext ==
    \/ LatlonToPixel
    \/ CreateCoordinateGrid
    \/ ConvertToGeographic

TripSpec == TripInit /\ [][TripNext]_vars

\* ------------------------------------------------------------------------
\* Properties of the round trip
\* ------------------------------------------------------------------------

TripDone == DOMAIN heights = trip_steps /\ heights["convert_to_geographic"] # Pending

Recovered == heights["convert_to_geographic"]

\* the larger of the two pixel offsets from the projection centre, in
\* sixteenths of a pixel
CentreDistance ==
    LET p == heights["latlon_to_pixel"]
        dx == Abs(p.px - metadata["sample_projection_offset"])
        dy == Abs(p.py - metadata["line_projection_offset"])
    IN  IF dx > dy THEN dx ELSE dy

\* the distance of two longitudes on the circle
Circular(a, b) ==
    LET d == (a - b) % 3600
    IN  IF d > 1800 THEN 3600 - d ELSE d

\* the position asked for lies in [minimum_latitude, 90) x [0, 360) and has
\* been taken to pixels, to metres and back
TripMade ==
    /\ TripDone
    /\ ~LatitudeOutside(query.lat)
    /\ query.lat < 900
    /\ query.lon \in 0..3599

====
